---- MODULE Spec2Model ----
(***************************************************************************)
(* Model of the Mauritius travel assistant's retrieval pipeline:            *)
(*   - src/src/search.js          queryCollection and its fallback tiers    *)
(*   - src/src/lib/retrieval.mjs  retrieveTopK                              *)
(*   - src/src/ingest_local.mjs   searchEmbeddings, cosineSimilarity        *)
(*   - src/src/ingest.mjs         chunkText, createCollection, main         *)
(*   - the ChromaDB ingestion script (src/unnamed/part_003)                 *)
(*   - src/src/lib/retrieval.mjs  formatContextForPrompt                    *)
(* Each part is a specification of its own over the shared variables; a    *)
(* part that is not running keeps its variables at their idle values.      *)
(***************************************************************************)
EXTENDS Integers, Sequences, FiniteSets, TLC

VARIABLES
  \* ---- retrieval run (search.js, retrieval.mjs, ingest_local.mjs) ----
  entry,        \* which entry point runs
  apiKey,       \* GEMINI_API_KEY is set
  pc,           \* position of the run
  topK,         \* requested number of hits
  localFile,    \* embeddings/all_embeddings.json
  queryVector,  \* the embedding of the query, once obtained
  calls,        \* external calls made so far, in order
  vecResp,      \* outcome of the vector search call
  textResp,     \* outcome of the text filter scroll call
  result,       \* hits printed / returned
  resultTier,   \* tier that produced result
  outcome,      \* how the run ended
  fault,        \* the external call that raised an error, if any
  \* ---- cosineSimilarity as a pure function ----
  cosImpl, vecA, vecB, cosPc, cosResult,
  \* ---- chunkText ----
  text,         \* the text, a sequence of characters
  chunkSize, overlap,
  start,        \* the cursor
  chunks,       \* the chunks pushed so far
  ranges,       \* the character range [from, to) of each pushed chunk
  steps,        \* iterations of the while loop so far
  chunkPc,
  \* ---- ingestion runs (ingest.mjs main, the ChromaDB ingestion script) ----
  script,       \* which ingestion script the runs execute
  ingKey,       \* GEMINI_API_KEY is set for the ingestion process
  clientRaises, \* a failed Qdrant client call raises (else it resolves to {err})
  corpus,       \* the Dataset directory: per source file, absent or its documents
  ix,           \* the collection held by the index service
  embBudget,    \* embedding calls that may still fail or return a malformed vector
  ixBudget,     \* index calls that may still raise an error of the service's own
  run,          \* per run: position, counter, points, exit status and its history
  \* ---- formatContextForPrompt ----
  fmtHits,      \* the argument hits
  context,      \* the returned string
  fmtPc,
  \* ---- chat page (app/page.js) and chat endpoint (POST /api/agent) ----
  chatMessages, \* state of the page: the messages shown
  inputMessage, \* state of the page: the text field
  isLoading,    \* state of the page
  lastSend,     \* how the last call of handleSendMessage ended
  sendsLeft,    \* sends the page may still accept in this run of the model
  conn,         \* per request: the body, the endpoint's run, the response, the reader
  \* ---- cleanText ----
  rawText, cleaned, cleanPc,
  \* ---- buildAttractionText ----
  attraction, attractionText, attrPc

retrVars  == <<entry, apiKey, pc, topK, localFile, queryVector, calls,
               vecResp, textResp, result, resultTier, outcome, fault>>
cosVars   == <<cosImpl, vecA, vecB, cosPc, cosResult>>
chunkVars == <<text, chunkSize, overlap, start, chunks, ranges, steps, chunkPc>>
ingVars   == <<script, ingKey, clientRaises, corpus, ix, embBudget, ixBudget,
               run>>
fmtVars   == <<fmtHits, context, fmtPc>>
chatVars  == <<chatMessages, inputMessage, isLoading, lastSend, sendsLeft,
               conn>>
cleanVars == <<rawText, cleaned, cleanPc>>
attrVars  == <<attraction, attractionText, attrPc>>
vars      == <<retrVars, cosVars, chunkVars, ingVars, fmtVars, chatVars,
               cleanVars, attrVars>>

----------------------------------------------------------------------------
(* Bounds of the model *)

MaxPoints == 11     \* points the index service may hold / match
MaxLocal  == 6      \* records in the local embedding file
MaxSearch == 3      \* records handed to searchEmbeddings
MaxTopK   == 2      \* topK values passed to retrieveTopK: 1..MaxTopK
MaxLen    == 5      \* length of a text given to chunkText
MaxSize   == 3      \* chunkSize values: 1..MaxSize
MaxOverlap == 3     \* overlap values: 0..MaxOverlap
MaxRepeat == 20     \* repetitions of the phrase in a text chunked with the defaults
MaxDocs == 2        \* documents in the Dataset directory, all files together
MaxFaults == 1      \* embedding calls of one specification run that fail or are malformed
MaxIxFaults == 1    \* index calls that raise an error of the service's own
MaxHits == 2        \* hits in the list given to formatContextForPrompt
MaxSends == 2       \* sends the chat page accepts
MaxFairSends == 1   \* sends the chat page accepts where every await is to settle
MaxGen == 1         \* chunks of one generation stream
MaxHistory == 2     \* entries of the history in a body sent to the endpoint directly
MaxCleanLen == 4    \* characters of a text given to cleanText

(* Program constants *)

VectorLimit     == 5    \* search.js:39   limit of the vector search
TextFilterLimit == 10   \* search.js:45   limit of the text filter
DefaultTopK     == 5    \* search.js:195  topK default of queryLocalEmbeddings
SearchTopK      == 5    \* ingest_local.mjs:138  topK default of searchEmbeddings

Min(a, b) == IF a < b THEN a ELSE b
Max(a, b) == IF a > b THEN a ELSE b

----------------------------------------------------------------------------
(* Vectors and scores.                                                     *)
(* A score stands for a JavaScript number.  The cosine dot/(|a||b|) is kept *)
(* exactly as the pair (n, d) with n = sgn(dot)*dot^2 and d = |a|^2*|b|^2,  *)
(* i.e. the signed square of the cosine as a fraction: this is a strictly  *)
(* increasing function of the cosine, so order and equality of scores are  *)
(* those of the numbers.  nan marks NaN.                                   *)

Components == {-1, 0, 1}
CosVectors == {<<x>> : x \in Components} \cup
              {<<x, y>> : x \in Components, y \in Components}
Vectors    == {<<0, 0>>, <<1, 0>>, <<1, 1>>}

NaNScore  == [nan |-> TRUE,  n |-> 0, d |-> 1]
ZeroScore == [nan |-> FALSE, n |-> 0, d |-> 1]
NoScore   == [nan |-> FALSE, n |-> 0, d |-> 0]   \* the hit carries no score

RECURSIVE SumSquares(_)
SumSquares(v) ==
  IF v = <<>> THEN 0 ELSE Head(v) * Head(v) + SumSquares(Tail(v))

\* vecA.reduce((sum, a, i) => sum + a * (vecB[i] ?? 0), 0)
RECURSIVE DotFrom(_, _, _)
DotFrom(a, b, i) ==
  IF i > Len(a) THEN 0
  ELSE a[i] * (IF i <= Len(b) THEN b[i] ELSE 0) + DotFrom(a, b, i + 1)

SignedSquare(x) == IF x < 0 THEN -(x * x) ELSE x * x

\* search.js cosineSimilarity: if (!magA || !magB) return 0
CosineSimilarity(a, b) ==
  LET dot == DotFrom(a, b, 1)
      mA  == SumSquares(a)
      mB  == SumSquares(b)
  IN  IF mA = 0 \/ mB = 0 THEN ZeroScore
      ELSE [nan |-> FALSE, n |-> SignedSquare(dot), d |-> mA * mB]

\* ingest_local.mjs cosineSimilarity: a * vecB[i] is NaN when vecB is
\* shorter than vecA (vecB[i] is undefined), and 0/0 is NaN.
CosineSimilarityLocal(a, b) ==
  LET dot == DotFrom(a, b, 1)
      mA  == SumSquares(a)
      mB  == SumSquares(b)
  IN  IF Len(a) > Len(b) THEN NaNScore
      ELSE IF mA = 0 \/ mB = 0 THEN NaNScore
      ELSE [nan |-> FALSE, n |-> SignedSquare(dot), d |-> mA * mB]

\* value of the comparator (a, b) => b.score - a.score: "neg" (a first),
\* "pos" (b first), "zero"; NaN counts as +0 in Array.prototype.sort
Compare(sa, sb) ==
  IF sa.nan \/ sb.nan THEN "zero"
  ELSE IF sb.n * sa.d < sa.n * sb.d THEN "neg"
  ELSE IF sb.n * sa.d > sa.n * sb.d THEN "pos"
  ELSE "zero"

ScoreIsZero(s) == ~s.nan /\ s.d > 0 /\ s.n = 0
ScoreGeq(s, t) == ~s.nan /\ ~t.nan /\ s.n * t.d >= t.n * s.d
ScoreEq(s, t)  == ~s.nan /\ ~t.nan /\ s.n * t.d = t.n * s.d

----------------------------------------------------------------------------
(* Idle values of the parts that are not running *)

RetrIdle ==
  /\ entry = "none" /\ apiKey = TRUE /\ pc = "idle" /\ topK = DefaultTopK
  /\ localFile = [kind |-> "absent", data |-> <<>>]
  /\ queryVector = <<>> /\ calls = <<>>
  /\ vecResp = [st |-> "none", n |-> 0] /\ textResp = [st |-> "none", n |-> 0]
  /\ result = <<>> /\ resultTier = "none" /\ outcome = "none"
  /\ fault = "none"

CosIdle ==
  /\ cosImpl = "none" /\ vecA = <<>> /\ vecB = <<>>
  /\ cosPc = "idle" /\ cosResult = NoScore

ChunkIdle ==
  /\ text = <<>> /\ chunkSize = 1 /\ overlap = 0 /\ start = 0
  /\ chunks = <<>> /\ ranges = <<>> /\ steps = 0 /\ chunkPc = "idle"

Runs == {1, 2}

NoCollection == [exists |-> FALSE, dim |-> 0, distance |-> "none", points |-> {}]

\* a process that has not been started
OffRun ==
  [pc |-> "off", pos |-> <<0, 0, 0>>, counter |-> 0, points |-> <<>>,
   inflight |-> 0, exit |-> -1, inserted |-> -1, warned |-> FALSE,
   embedLog |-> <<>>, uploads |-> <<>>, faults |-> <<>>, created |-> FALSE,
   writes |-> <<>>, snap |-> NoCollection]

IngIdle ==
  /\ script = "none" /\ ingKey = TRUE /\ clientRaises = TRUE
  /\ corpus = <<>> /\ ix = NoCollection
  /\ embBudget = 0 /\ ixBudget = 0
  /\ run = [r \in Runs |-> OffRun]

FmtIdle ==
  /\ fmtHits = [given |-> FALSE, list |-> <<>>] /\ context = "" /\ fmtPc = "idle"

Sends == 1..MaxSends

NoBody == [parsable |-> FALSE, message |-> "", given |-> FALSE, history |-> <<>>]

\* a request that has not been issued
OffConn ==
  [ppc |-> "none", spc |-> "off", body |-> NoBody, prior |-> <<>>,
   mapped |-> <<>>, modelInput |-> <<>>, genLeft |-> <<>>,
   contextBlock |-> "", status |-> 0, ctype |-> "none", errorBody |-> FALSE,
   sstate |-> "none", wire |-> <<>>, failure |-> "none",
   assistant |-> "", pending |-> <<>>, rcvd |-> <<>>]

ChatIdle ==
  /\ chatMessages = <<>> /\ inputMessage = "" /\ isLoading = FALSE
  /\ lastSend = "none" /\ sendsLeft = 0 /\ conn = [s \in Sends |-> OffConn]

CleanIdle == rawText = "" /\ cleaned = "" /\ cleanPc = "idle"

AttrIdle == attraction = <<>> /\ attractionText = "" /\ attrPc = "idle"

----------------------------------------------------------------------------
(* cosineSimilarity, both implementations, as a function of two vectors *)

CosImpls == {"search.js", "ingest_local.mjs"}

CosInit ==
  /\ cosImpl \in CosImpls
  /\ vecA \in CosVectors /\ vecB \in CosVectors
  /\ cosPc = "call" /\ cosResult = NoScore
  /\ RetrIdle /\ ChunkIdle /\ IngIdle /\ FmtIdle /\ ChatIdle /\ CleanIdle /\ AttrIdle

CosCall ==
  /\ cosPc = "call"
  /\ cosResult' = IF cosImpl = "search.js"
                    THEN CosineSimilarity(vecA, vecB)
                    ELSE CosineSimilarityLocal(vecA, vecB)
  /\ cosPc' = "returned"
  /\ UNCHANGED <<cosImpl, vecA, vecB, retrVars, chunkVars,
                 ingVars, fmtVars, chatVars, cleanVars, attrVars>>

CosNext == CosCall

SpecCosine == CosInit /\ [][CosNext]_vars

----------------------------------------------------------------------------
(* Ranking of local records: map -> sort -> slice *)

RECURSIVE PermsOf(_)
PermsOf(S) ==
  IF S = {} THEN {<<>>}
  ELSE UNION {{<<x>> \o p : p \in PermsOf(S \ {x})} : x \in S}

\* local.map((e, i) => ({ i, score: cosineSimilarity(queryVector, e.embedding), e }))
ScoreAll(data, qv) ==
  [i \in 1..Len(data) |-> [id |-> i, score |-> CosineSimilarity(qv, data[i])]]

\* embeddings.map((embedding, index) => ({ index, score: ..., data }))
ScoreAllLocal(data, qv) ==
  [i \in 1..Len(data) |-> [id |-> i, score |-> CosineSimilarityLocal(qv, data[i])]]

RECURSIVE InsertDesc(_, _)
InsertDesc(s, x) ==
  IF s = <<>> THEN <<x>>
  ELSE IF Compare(Head(s).score, x.score) = "pos" THEN <<x>> \o s
  ELSE <<Head(s)>> \o InsertDesc(Tail(s), x)

RECURSIVE SortPrefix(_, _)
SortPrefix(seq, k) ==
  IF k = 0 THEN <<>> ELSE InsertDesc(SortPrefix(seq, k - 1), seq[k])

\* the comparator is a consistent comparison function for these elements:
\* "zero" must be transitive, which a NaN breaks unless all compare "zero"
ComparatorConsistent(seq) ==
  \/ \A i \in 1..Len(seq) : ~seq[i].score.nan
  \/ \A i, j \in 1..Len(seq) : Compare(seq[i].score, seq[j].score) = "zero"

\* Array.prototype.sort((a, b) => b.score - a.score): stable; with a
\* comparator that is not consistent the order is implementation-defined
SortOutcomesAscending(seq) ==
  {[i \in 1..Len(seq) |-> SortPrefix(seq, Len(seq))[Len(seq) + 1 - i]]}

SortOutcomes(seq) ==
  IF ComparatorConsistent(seq) THEN {SortPrefix(seq, Len(seq))}
  ELSE {[i \in 1..Len(seq) |-> seq[p[i]]] : p \in PermsOf(1..Len(seq))}

\* .slice(0, topK)
SliceNoLimit(seq, k) == seq

Slice(seq, k) == SubSeq(seq, 1, Min(k, Len(seq)))

\* hits of the index service: it returns at most `limit` points, here the
\* first n it holds; they carry no score the engine computes
ServiceHits(n) == [i \in 1..n |-> [id |-> i, score |-> NoScore]]

\* !results || results.length === 0
NoHitsNever(results) == FALSE

NoHits(results) == Len(results) = 0

----------------------------------------------------------------------------
(* Retrieval runs: the search.js script and retrieveTopK *)

SeqsUpTo(S, n) == UNION {[1..k -> S] : k \in 0..n}

AbsentFile == [kind |-> "absent", data |-> <<>>]
LocalFiles(n) ==
  {AbsentFile, [kind |-> "object", data |-> <<>>]} \cup
  {[kind |-> "array", data |-> d] : d \in SeqsUpTo(Vectors, n)}

NoResp == [st |-> "none", n |-> 0]

envVars == <<entry, apiKey, topK, localFile>>
endVars == <<outcome, resultTier, result>>

RetrStart ==
  /\ pc = "boot" /\ queryVector = <<>> /\ calls = <<>>
  /\ vecResp = NoResp /\ textResp = NoResp
  /\ result = <<>> /\ resultTier = "none" /\ outcome = "none"
  /\ fault = "none"

RetrInit ==
  /\ entry \in {"search.js", "retrieveTopK"}
  /\ apiKey \in BOOLEAN
  /\ topK \in (IF entry = "retrieveTopK" THEN 1..MaxTopK ELSE {DefaultTopK})
  \* retrieveTopK never reads the local file
  /\ localFile \in (IF entry = "search.js" THEN LocalFiles(MaxLocal) ELSE {AbsentFile})
  /\ RetrStart
  /\ CosIdle /\ ChunkIdle /\ IngIdle /\ FmtIdle /\ ChatIdle /\ CleanIdle /\ AttrIdle

\* the run ends: pc, outcome, and the hits it produced
Finish(how, tier, hits) ==
  /\ pc' = "done" /\ outcome' = how /\ resultTier' = tier /\ result' = hits

\* queryCollection's catch (err): the error is logged and the function returns
CatchQueryFallsBack ==
  /\ pc' = "tf_index" /\ UNCHANGED endVars

CatchQuery == Finish("logged_error", "none", <<>>)

\* retrieveTopK has no try: a rejected await or the throw on err reaches the caller
ThrowSwallowed == Finish("empty", "none", <<>>)

Throw == Finish("thrown", "none", <<>>)

\* !KEY, !process.env.GEMINI_API_KEY
KeyMissingNever(set) == FALSE

KeyMissing(set) == ~set

\* search.js: const KEY = ...; if (!KEY) process.exit(1)
Boot ==
  /\ entry = "search.js" /\ pc = "boot"
  /\ IF ~KeyMissing(apiKey)
       THEN pc' = "main" /\ UNCHANGED endVars
       ELSE Finish("exit1", "none", <<>>)
  /\ UNCHANGED <<envVars, queryVector, calls, vecResp, textResp, fault,
                 cosVars, chunkVars,
                 ingVars, fmtVars, chatVars, cleanVars, attrVars>>

\* main: ensureCollectionExists, then getPointCount (its errors are swallowed)
MainEnsureCollection ==
  /\ entry = "search.js" /\ pc = "main"
  /\ \E exists \in BOOLEAN :
       IF exists
         THEN /\ pc' = "qc_embed"
              /\ calls' = calls \o <<"getCollection", "count">>
              /\ UNCHANGED endVars
         ELSE /\ calls' = Append(calls, "getCollection")
              /\ Finish("exit1", "none", <<>>)
  /\ UNCHANGED <<envVars, queryVector, vecResp, textResp, fault,
                 cosVars, chunkVars,
                 ingVars, fmtVars, chatVars, cleanVars, attrVars>>

\* queryCollection: embeddingModel.embedContent(queryText) inside the try
QueryEmbed ==
  /\ entry = "search.js" /\ pc = "qc_embed"
  /\ calls' = Append(calls, "embed")
  /\ \/ /\ fault' = "embed"
        /\ CatchQuery
        /\ UNCHANGED queryVector
     \/ /\ \E v \in Vectors : queryVector' = v
        /\ pc' = "qc_search"
        /\ UNCHANGED <<endVars, fault>>
  /\ UNCHANGED <<envVars, vecResp, textResp, cosVars, chunkVars,
                 ingVars, fmtVars, chatVars, cleanVars, attrVars>>

\* queryCollection: client.search(..., limit: 5) and the branch on its result
QuerySearch ==
  /\ entry = "search.js" /\ pc = "qc_search"
  /\ calls' = Append(calls, "search")
  /\ \/ /\ vecResp' = [st |-> "error", n |-> 0]
        /\ fault' = "search"
        /\ CatchQuery
     \/ \E n \in 0..Min(VectorLimit, MaxPoints) :
          /\ vecResp' = [st |-> "ok", n |-> n]
          /\ UNCHANGED fault
          /\ IF NoHits(ServiceHits(n))
               THEN pc' = "tf_index" /\ UNCHANGED endVars
               ELSE Finish("hits", "vector", ServiceHits(n))
  /\ UNCHANGED <<envVars, queryVector, textResp, cosVars, chunkVars,
                 ingVars, fmtVars, chatVars, cleanVars, attrVars>>

\* textFilterSearch: ensureTextIndex("content"), which swallows its error
TextEnsureIndex ==
  /\ entry = "search.js" /\ pc = "tf_index"
  /\ calls' = Append(calls, "putIndex")
  /\ pc' = "tf_scroll"
  /\ UNCHANGED <<envVars, queryVector, vecResp, textResp, endVars, fault,
                 cosVars, chunkVars,
                 ingVars, fmtVars, chatVars, cleanVars, attrVars>>

\* textFilterSearch(queryText, 10): the scroll request; its own catch
\* turns an error into []
TextScroll ==
  /\ entry = "search.js" /\ pc = "tf_scroll"
  /\ calls' = Append(calls, "scroll")
  /\ \/ /\ textResp' = [st |-> "error", n |-> 0]
        /\ pc' = "local_load"
        /\ UNCHANGED endVars
     \/ \E n \in 0..Min(TextFilterLimit, MaxPoints) :
          /\ textResp' = [st |-> "ok", n |-> n]
          /\ IF NoHits(ServiceHits(n))
               THEN pc' = "local_load" /\ UNCHANGED endVars
               ELSE Finish("hits", "text", ServiceHits(n))
  /\ UNCHANGED <<envVars, queryVector, vecResp, fault, cosVars, chunkVars,
                 ingVars, fmtVars, chatVars, cleanVars, attrVars>>

\* loadLocalEmbeddings: null unless the file exists and holds an array
LoadLocal(file) == file.kind = "array"

\* queryLocalEmbeddings: load the file; return when there is none
LocalLoad ==
  /\ entry = "search.js" /\ pc = "local_load"
  /\ calls' = Append(calls, "readLocal")
  /\ IF LoadLocal(localFile)
       THEN pc' = "local_embed" /\ UNCHANGED endVars
       ELSE Finish("empty", "none", <<>>)
  /\ UNCHANGED <<envVars, queryVector, vecResp, textResp, fault,
                 cosVars, chunkVars,
                 ingVars, fmtVars, chatVars, cleanVars, attrVars>>

\* queryLocalEmbeddings: embed the query, rank, print the top topK; an
\* embedding error leaves queryLocalEmbeddings and is caught in queryCollection
LocalEmbed ==
  /\ entry = "search.js" /\ pc = "local_embed"
  /\ calls' = Append(calls, "embed")
  /\ \/ /\ fault' = "embed"
        /\ CatchQuery
        /\ UNCHANGED queryVector
     \/ \E v \in Vectors :
          /\ queryVector' = v
          /\ UNCHANGED fault
          /\ \E sorted \in SortOutcomes(ScoreAll(localFile.data, v)) :
               LET ranked == Slice(sorted, topK)
               IN  IF Len(ranked) = 0
                     THEN Finish("empty", "none", <<>>)
                     ELSE Finish("hits", "local", ranked)
  /\ UNCHANGED <<envVars, vecResp, textResp, cosVars, chunkVars,
                 ingVars, fmtVars, chatVars, cleanVars, attrVars>>

\* retrieveTopK: assertEnv()
TopKAssertEnv ==
  /\ entry = "retrieveTopK" /\ pc = "boot"
  /\ IF ~KeyMissing(apiKey)
       THEN pc' = "rt_embed" /\ UNCHANGED endVars
       ELSE Throw
  /\ UNCHANGED <<envVars, queryVector, calls, vecResp, textResp, fault,
                 cosVars, chunkVars,
                 ingVars, fmtVars, chatVars, cleanVars, attrVars>>

\* retrieveTopK: embedContent, outside any try
TopKEmbed ==
  /\ entry = "retrieveTopK" /\ pc = "rt_embed"
  /\ calls' = Append(calls, "embed")
  /\ \/ /\ fault' = "embed"
        /\ Throw
        /\ UNCHANGED queryVector
     \/ /\ \E v \in Vectors : queryVector' = v
        /\ pc' = "rt_search"
        /\ UNCHANGED <<endVars, fault>>
  /\ UNCHANGED <<envVars, vecResp, textResp, cosVars, chunkVars,
                 ingVars, fmtVars, chatVars, cleanVars, attrVars>>

\* retrieveTopK: search_collection(..., topK); err is thrown; the hits
\* (response.result, or [] when that is no array) are mapped and returned
TopKSearch ==
  /\ entry = "retrieveTopK" /\ pc = "rt_search"
  /\ calls' = Append(calls, "search")
  /\ \/ /\ vecResp' = [st |-> "error", n |-> 0]
        /\ fault' = "search"
        /\ Throw
     \/ \E n \in 0..Min(topK, MaxPoints) :
          /\ vecResp' = [st |-> "ok", n |-> n]
          /\ UNCHANGED fault
          /\ Finish(IF n = 0 THEN "empty" ELSE "hits", "vector", ServiceHits(n))
  /\ UNCHANGED <<envVars, queryVector, textResp, cosVars, chunkVars,
                 ingVars, fmtVars, chatVars, cleanVars, attrVars>>

Next ==
  \/ Boot \/ MainEnsureCollection \/ QueryEmbed \/ QuerySearch
  \/ TextEnsureIndex \/ TextScroll \/ LocalLoad \/ LocalEmbed
  \/ TopKAssertEnv \/ TopKEmbed \/ TopKSearch

Spec == RetrInit /\ [][Next]_vars

----------------------------------------------------------------------------
(* Properties of the retrieval runs *)

Called(c) == \E i \in 1..Len(calls) : calls[i] = c
LastCall  == IF calls = <<>> THEN "none" ELSE calls[Len(calls)]
IsTierCall(c) == c \in {"search", "scroll", "readLocal"}
TierCalls == SelectSeq(calls, IsTierCall)
TierChain == <<"search", "scroll", "readLocal">>
IsPrefix(s, t) == Len(s) <= Len(t) /\ s = SubSeq(t, 1, Len(s))
HeadingToTextFilter == pc \in {"tf_index", "tf_scroll"} \/ Called("scroll")

\* the parts of C1 that do not depend on the entry point
TierDiscipline ==
  /\ IsPrefix(TierCalls, TierChain)
  /\ Called("readLocal") => (Called("scroll") /\ textResp.st # "none" /\ textResp.n = 0)
  /\ vecResp.n > 0 => (~Called("scroll") /\ ~Called("readLocal"))
  /\ textResp.n > 0 => ~Called("readLocal")
  /\ (pc = "done" /\ Called("readLocal") /\ localFile.kind # "array")
       => (outcome = "empty" /\ result = <<>> /\ fault = "none")

C4_AtMostTopK == Len(result) <= topK

\* C4 amended: the vector tier and the local fallback give at most topK
\* hits; the text filter gives at most its own limit of 10, which may be
\* more than topK.
C4_AtMostTierLimit ==
  Len(result) <= (IF resultTier = "text" THEN TextFilterLimit ELSE topK)

C4_Witness ==
  resultTier = "text" /\ Len(result) = TextFilterLimit /\ Len(result) > topK

\* calls made after the local file was read
CallsAfterLoad ==
  LET at == CHOOSE i \in 1..Len(calls) : calls[i] = "readLocal"
  IN  SubSeq(calls, at + 1, Len(calls))

IsEmbedCall(c) == c = "embed"

ResultIds == {result[i].id : i \in 1..Len(result)}

\* C6: in the local-fallback tier, without a local array the tier ends with
\* no result and no embedding request; otherwise exactly one embedding is
\* requested, and (when it succeeds) exactly min(topK, n) records are
\* returned, each with its cosine score, none scoring below a record left out.
C6_LocalFallback ==
  (entry = "search.js" /\ pc = "done" /\ Called("readLocal")) =>
    IF localFile.kind # "array"
      THEN CallsAfterLoad = <<>> /\ result = <<>> /\ outcome = "empty"
      ELSE /\ SelectSeq(CallsAfterLoad, IsEmbedCall) = <<"embed">>
           /\ fault # "embed" =>
                /\ Len(result) = Min(topK, Len(localFile.data))
                /\ Cardinality(ResultIds) = Len(result)
                /\ \A i \in 1..Len(result) :
                     /\ result[i].id \in 1..Len(localFile.data)
                     /\ result[i].score =
                          CosineSimilarity(queryVector, localFile.data[result[i].id])
                     /\ \A j \in (1..Len(localFile.data)) \ ResultIds :
                          ScoreGeq(result[i].score,
                                   CosineSimilarity(queryVector, localFile.data[j]))

C6_Witness ==
  /\ entry = "search.js" /\ pc = "done" /\ resultTier = "local"
  /\ Len(localFile.data) > topK /\ Len(result) = topK
  /\ \E j \in (1..Len(localFile.data)) \ ResultIds :
       ~ScoreGeq(CosineSimilarity(queryVector, localFile.data[j]), result[1].score)

----------------------------------------------------------------------------
(* searchEmbeddings of the local query script (ingest_local.mjs) *)

SearchInit ==
  /\ entry = "searchEmbeddings"
  /\ apiKey \in BOOLEAN
  /\ topK = SearchTopK
  /\ localFile \in LocalFiles(MaxSearch)
  /\ RetrStart
  /\ CosIdle /\ ChunkIdle /\ IngIdle /\ FmtIdle /\ ChatIdle /\ CleanIdle /\ AttrIdle

\* const KEY = ...; if (!KEY) process.exit(1)
SearchBoot ==
  /\ entry = "searchEmbeddings" /\ pc = "boot"
  /\ IF ~KeyMissing(apiKey)
       THEN pc' = "load" /\ UNCHANGED endVars
       ELSE Finish("exit1", "none", <<>>)
  /\ UNCHANGED <<envVars, queryVector, calls, vecResp, textResp, fault,
                 cosVars, chunkVars,
                 ingVars, fmtVars, chatVars, cleanVars, attrVars>>

\* main: loadEmbeddings() exits when the file is absent
SearchLoad ==
  /\ entry = "searchEmbeddings" /\ pc = "load"
  /\ calls' = Append(calls, "readLocal")
  /\ IF localFile.kind = "absent"
       THEN Finish("exit1", "none", <<>>)
       ELSE pc' = "search" /\ UNCHANGED endVars
  /\ UNCHANGED <<envVars, queryVector, vecResp, textResp, fault,
                 cosVars, chunkVars,
                 ingVars, fmtVars, chatVars, cleanVars, attrVars>>

\* searchEmbeddings: embed, map, sort, slice(0, topK), all inside one try;
\* embeddings.map throws when the file held no array
SearchEmbeddings ==
  /\ entry = "searchEmbeddings" /\ pc = "search"
  /\ calls' = Append(calls, "embed")
  /\ \/ /\ fault' = "embed"
        /\ Finish("logged_error", "none", <<>>)
        /\ UNCHANGED queryVector
     \/ \E v \in Vectors :
          /\ queryVector' = v
          /\ UNCHANGED fault
          /\ IF localFile.kind # "array"
               THEN Finish("logged_error", "none", <<>>)
               ELSE \E sorted \in SortOutcomes(ScoreAllLocal(localFile.data, v)) :
                      LET results == Slice(sorted, topK)
                      IN  IF Len(results) = 0
                            THEN Finish("empty", "none", <<>>)
                            ELSE Finish("hits", "local", results)
  /\ UNCHANGED <<envVars, vecResp, textResp, cosVars, chunkVars,
                 ingVars, fmtVars, chatVars, cleanVars, attrVars>>

SearchNext == SearchBoot \/ SearchLoad \/ SearchEmbeddings

SpecSearch == SearchInit /\ [][SearchNext]_vars

\* C5: in every result set the hits are in non-increasing score order, and
\* hits of equal score keep the order in which the store supplied them
\* (compared on the hits whose score is a number).
C5_SortedStable ==
  \A i, j \in 1..Len(result) :
    (i < j /\ ~result[i].score.nan /\ ~result[j].score.nan) =>
      /\ ScoreGeq(result[i].score, result[j].score)
      /\ ScoreEq(result[i].score, result[j].score) => result[i].id < result[j].id

\* C7: cosineSimilarity returns 0, never NaN, when either vector has zero
\* magnitude, in every implementation.
C7_ZeroMagnitudeGivesZero ==
  (cosPc = "returned" /\ (SumSquares(vecA) = 0 \/ SumSquares(vecB) = 0))
    => ScoreIsZero(cosResult)

----------------------------------------------------------------------------
(* chunkText(text, chunkSize, overlap) *)

Chars == {"a", "b"}

\* the while loop of an invalid call never ends: the model stops it here
StepCap == MaxLen + 2

\* String.prototype.slice(s, e): the range [from, to) it resolves to
SliceFrom(len, s) == IF s < 0 THEN Max(len + s, 0) ELSE Min(s, len)
SliceTo(len, e)   == IF e < 0 THEN Max(len + e, 0) ELSE Min(e, len)
JsSlice(t, s, e)  == SubSeq(t, SliceFrom(Len(t), s) + 1, SliceTo(Len(t), e))

\* start += chunkSize - overlap
NextStartNoOverlap(s, size, ov)   == s + size
NextStartPlusOverlap(s, size, ov) == s + size + ov
NextStartOverlapTwice(s, size, ov) == s + size - 2 * ov

NextStart(s, size, ov) == s + size - ov

ChunkInit ==
  /\ text \in SeqsUpTo(Chars, MaxLen)
  /\ chunkSize \in 1..MaxSize
  /\ overlap \in 0..MaxOverlap
  /\ start = 0 /\ chunks = <<>> /\ ranges = <<>> /\ steps = 0
  /\ chunkPc = "loop"
  /\ RetrIdle /\ CosIdle /\ IngIdle /\ FmtIdle /\ ChatIdle /\ CleanIdle /\ AttrIdle

\* one iteration of while (start < text.length)
ChunkStep ==
  /\ chunkPc = "loop" /\ start < Len(text)
  /\ steps < StepCap
  /\ LET e == Min(start + chunkSize, Len(text))
     IN  /\ chunks' = Append(chunks, JsSlice(text, start, e))
         /\ ranges' = Append(ranges, <<SliceFrom(Len(text), start), SliceTo(Len(text), e)>>)
  /\ start' = NextStart(start, chunkSize, overlap)
  /\ steps' = steps + 1
  /\ UNCHANGED <<text, chunkSize, overlap, chunkPc, retrVars, cosVars,
                 ingVars, fmtVars, chatVars, cleanVars, attrVars>>

\* the loop condition fails: return chunks
ChunkReturn ==
  /\ chunkPc = "loop" /\ ~(start < Len(text))
  /\ chunkPc' = "returned"
  /\ UNCHANGED <<text, chunkSize, overlap, start, chunks, ranges, steps,
                 retrVars, cosVars,
                 ingVars, fmtVars, chatVars, cleanVars, attrVars>>

ChunkNext == ChunkStep \/ ChunkReturn

SpecChunk == ChunkInit /\ [][ChunkNext]_vars

\* chunkText is synchronous code: once called it runs on until it returns
SpecChunkFair == SpecChunk /\ WF_vars(ChunkNext)

CeilDiv(a, b) == (a + b - 1) \div b
ValidChunking == overlap >= 0 /\ overlap < chunkSize
\* ceil(len(text)/(size-overlap)), which is defined for size > overlap
ExpectedSteps ==
  IF overlap < chunkSize THEN CeilDiv(Len(text), chunkSize - overlap) ELSE -1

\* C8: a call with overlap >= size is rejected before the loop: it never
\* runs an iteration (in which the cursor would stay or move backwards).
C8_OverlapRejected ==
  overlap >= chunkSize => steps = 0

C9_StepInvariant ==
  ValidChunking =>
    /\ steps = Len(chunks)
    /\ steps <= ExpectedSteps
    /\ chunkPc = "loop" => (start < Len(text) <=> steps < ExpectedSteps)
    /\ chunkPc = "returned" => steps = ExpectedSteps
    /\ steps < StepCap

\* C9: for size > overlap >= 0 chunkText terminates, after exactly
\* ceil(len(text)/(size-overlap)) iterations of its loop, one chunk each.
C9_TerminatesInCeilSteps ==
  /\ []C9_StepInvariant
  /\ ValidChunking ~> (chunkPc = "returned" /\ steps = ExpectedSteps)

C9_Witness ==
  /\ ValidChunking /\ overlap > 0 /\ chunkPc = "returned"
  /\ steps = Len(text) /\ steps > chunkSize

\* C10: for size > overlap >= 0 the chunk ranges cover [0, len(text)) with
\* no gap: the first starts at 0, each next one starts no later than the
\* previous one ends, the last ends at len(text), and each chunk is the text
\* of its range.
C10_Coverage ==
  (ValidChunking /\ chunkPc = "returned") =>
    /\ Len(ranges) = Len(chunks)
    /\ Len(text) > 0 => Len(chunks) > 0
    /\ Len(chunks) > 0 =>
         ranges[1][1] = 0 /\ ranges[Len(ranges)][2] = Len(text)
    /\ \A i \in 1..Len(ranges) - 1 : ranges[i + 1][1] <= ranges[i][2]
    /\ \A i \in 1..Len(ranges) :
         chunks[i] = SubSeq(text, ranges[i][1] + 1, ranges[i][2])
    /\ \A p \in 0..Len(text) - 1 :
         \E i \in 1..Len(ranges) : ranges[i][1] <= p /\ p < ranges[i][2]

C10_Witness ==
  /\ ValidChunking /\ chunkPc = "returned" /\ overlap > 0
  /\ Len(chunks) >= 3
  /\ Len(chunks[Len(chunks)]) < chunkSize

\* C11 as stated: for every text shorter than size (with overlap < size)
\* chunkText returns exactly one chunk, and that chunk is the whole text.
C11_ShortTextOneChunk ==
  (ValidChunking /\ Len(text) < chunkSize /\ chunkPc = "returned") =>
    (Len(chunks) = 1 /\ chunks[1] = text)

\* C11: for every non-empty text of length at most size - overlap chunkText
\* returns exactly one chunk, the whole text; for every non-empty text shorter
\* than size the first chunk is the whole text and every further chunk (there
\* is one when the length exceeds size - overlap) is a suffix of the text; for
\* the empty text it returns no chunk.
C11_ShortTextFirstChunkWhole ==
  (ValidChunking /\ Len(text) < chunkSize /\ chunkPc = "returned") =>
    /\ Len(text) = 0 => chunks = <<>>
    /\ Len(text) > 0 => chunks[1] = text
    /\ (Len(text) > 0 /\ Len(text) <= chunkSize - overlap) => Len(chunks) = 1
    /\ Len(text) > chunkSize - overlap => Len(chunks) > 1
    /\ \A i \in 2..Len(chunks) :
         chunks[i] = SubSeq(text, ranges[i][1] + 1, Len(text))

C11_Witness ==
  /\ ValidChunking /\ chunkPc = "returned"
  /\ Len(text) > 0 /\ Len(text) < chunkSize
  /\ Len(text) > chunkSize - overlap
  /\ Len(chunks) = 2 /\ chunks[1] = text

----------------------------------------------------------------------------
(* chunkText(text) with its default chunkSize and overlap, as main calls it *)

DefaultChunkSize == 300   \* ingest.mjs:60
DefaultOverlap   == 50    \* ingest.mjs:60

\* "Mauritius has beautiful beaches. "
Phrase ==
  << "M", "a", "u", "r", "i", "t", "i", "u", "s", " ", "h",
     "a", "s", " ", "b", "e", "a", "u", "t", "i", "f", "u",
     "l", " ", "b", "e", "a", "c", "h", "e", "s", ".", " " >>

\* the first n characters of the phrase repeated without end
PhraseText(n) == [i \in 1..n |-> Phrase[((i - 1) % Len(Phrase)) + 1]]

ChunkDefaultInit ==
  /\ text \in {PhraseText(n) : n \in 0..(Len(Phrase) * MaxRepeat)}
  /\ chunkSize = DefaultChunkSize
  /\ overlap = DefaultOverlap
  /\ start = 0 /\ chunks = <<>> /\ ranges = <<>> /\ steps = 0
  /\ chunkPc = "loop"
  /\ RetrIdle /\ CosIdle /\ IngIdle /\ FmtIdle /\ ChatIdle /\ CleanIdle /\ AttrIdle

SpecChunkDefault == ChunkDefaultInit /\ [][ChunkNext]_vars

ScenarioText == PhraseText(Len(Phrase) * 20)

\* the chunks of the scenario have been returned
ScenarioReturned ==
  /\ text = ScenarioText /\ Len(text) = 660
  /\ chunkSize = 300 /\ overlap = 50
  /\ chunkPc = "returned"

\* C12 as stated: the text of length 660 with size=300, overlap=50 gives
\* exactly 3 chunks, at offsets 0, 250 and 500, of lengths 300, 300 and 60.
C12_ScenarioLengthsAsStated ==
  ScenarioReturned =>
    /\ Len(chunks) = 3
    /\ <<ranges[1][1], ranges[2][1], ranges[3][1]>> = <<0, 250, 500>>
    /\ <<Len(chunks[1]), Len(chunks[2]), Len(chunks[3])>> = <<300, 300, 60>>

\* C12: the text of length 660 with size=300, overlap=50 gives exactly 3
\* chunks, at offsets 0, 250 and 500, of lengths 300, 300 and 160: the last
\* chunk runs from offset 500 to the end of the text.
C12_ScenarioLengths ==
  ScenarioReturned =>
    /\ Len(chunks) = 3
    /\ <<ranges[1][1], ranges[2][1], ranges[3][1]>> = <<0, 250, 500>>
    /\ <<Len(chunks[1]), Len(chunks[2]), Len(chunks[3])>> = <<300, 300, 160>>
    /\ chunks[3] = SubSeq(text, 501, 660)

C12_Witness ==
  /\ ScenarioReturned
  /\ Len(chunks) = 3 /\ steps = 3
  /\ ranges[3] = <<500, 660>>

----------------------------------------------------------------------------
(* Ingestion: ingest.mjs main (Qdrant) and the ChromaDB ingestion script *)

VECTOR_SIZE == 768   \* ingest.mjs:24

\* 1 = travel_docs.json, 2 = attractions.json, 3 = attractions_ver2.json
Files == 1..3

\* lengths of a document's text after cleanText: no chunk, one chunk, two chunks
DocLens == {0, 100, 280}

\* a source file is absent or holds at least one document
AbsentSource == [present |-> FALSE, docs |-> <<>>]
Sources ==
  {AbsentSource}
    \cup {[present |-> TRUE, docs |-> d] : d \in SeqsUpTo(DocLens, MaxDocs) \ {<<>>}}

\* the Dataset directories with at most MaxDocs documents in all
Corpora ==
  {c \in [Files -> Sources] :
     Len(c[1].docs) + Len(c[2].docs) + Len(c[3].docs) <= MaxDocs}

\* chunkText(text): the ranges of the chunks of a text of length len
RECURSIVE RangesFrom(_, _)
RangesFrom(len, s) ==
  IF s < len
  THEN <<<<s, Min(s + DefaultChunkSize, len)>>>>
         \o RangesFrom(len, NextStart(s, DefaultChunkSize, DefaultOverlap))
  ELSE <<>>

ChunkRanges(len) == RangesFrom(len, 0)

\* the files a script reads: the ChromaDB script reads travel_docs.json only
ScriptFiles == IF script \in {"chroma", "ingest_local.mjs"} THEN {1} ELSE Files

\* every (file, document, chunk index) the loops of a run visit
Positions ==
  UNION {{<<fd[1], fd[2], i>> :
            i \in 0..Len(ChunkRanges(corpus[fd[1]].docs[fd[2]])) - 1} :
         fd \in {x \in ScriptFiles \X (1..MaxDocs) :
                   corpus[x[1]].present /\ x[2] <= Len(corpus[x[1]].docs)}}

\* the order of the loops: by file, then by document, then by chunk index
PosLess(a, b) ==
  \/ a[1] < b[1]
  \/ a[1] = b[1] /\ a[2] < b[2]
  \/ a[1] = b[1] /\ a[2] = b[2] /\ a[3] < b[3]

NoPos == <<0, 0, 0>>

\* the positions a run at position p has still to visit
Remaining(p) ==
  IF p = NoPos THEN Positions
  ELSE {q \in Positions : PosLess(p, q)}

HasNext(p) == Remaining(p) # {}
NextPos(p) ==
  CHOOSE q \in Remaining(p) : \A o \in Remaining(p) : o = q \/ PosLess(q, o)

\* the payload of the point of a chunk: type, title, source_file and
\* document_id are functions of (file, doc); content is the chunk's range
Payload(p) ==
  [file |-> p[1], doc |-> p[2], chunk_index |-> p[3],
   content |-> ChunkRanges(corpus[p[1]].docs[p[2]])[p[3] + 1]]

\* id: counter (the ChromaDB script's `doc${counter}` is held as its number)
PointIdConstant(c) == 0

PointId(c) == c

Point(r, c, dim, p) ==
  [id |-> PointId(c), dim |-> dim, payload |-> Payload(p), by |-> r]

\* a collection left by an earlier ingestion of other data
StaleCollection ==
  [exists |-> TRUE, dim |-> VECTOR_SIZE, distance |-> "Cosine",
   points |-> {[id |-> 40, dim |-> VECTOR_SIZE, by |-> 0,
                payload |-> [file |-> 1, doc |-> 9, chunk_index |-> 0,
                             content |-> <<0, 100>>]]}]

\* create_collection(COLLECTION_NAME, {vectors: {size, distance}})
FreshCollection ==
  [exists |-> TRUE, dim |-> VECTOR_SIZE, distance |-> "Cosine", points |-> {}]

\* delete_collection(COLLECTION_NAME): the collection and its points are gone
DroppedStays(coll) == coll

Dropped(coll) == NoCollection

\* upload_points / collection.add: a point replaces the stored point of its id
Upsert(stored, pts) ==
  {q \in stored : \A k \in 1..Len(pts) : pts[k].id # q.id}
    \cup {pts[k] : k \in 1..Len(pts)}

\* the service accepts a batch whose vectors all have the collection's size
Accepts(coll, pts) ==
  /\ coll.exists
  /\ \A k \in 1..Len(pts) : coll.dim = 0 \/ pts[k].dim = coll.dim

\* what an embedContent call can do: return a vector of VECTOR_SIZE values,
\* return a vector of another length, or raise an error
EmbedOutcomes ==
  {[kind |-> "ok", dim |-> VECTOR_SIZE]}
    \cup (IF embBudget > 0
          THEN {[kind |-> "malformed", dim |-> VECTOR_SIZE - 1],
                [kind |-> "error", dim |-> 0]}
          ELSE {})

\* an index call can raise an error of the service's own while the budget lasts
MayFault == ixBudget > 0

BootRun == [OffRun EXCEPT !.pc = "boot"]
WaitingRun == [OffRun EXCEPT !.pc = "waiting"]

\* process.exit(code)
Exit(rr, code, coll) == [rr EXCEPT !.pc = "done", !.exit = code, !.snap = coll]

Faulted(rr, call) == [rr EXCEPT !.faults = Append(@, call)]

IngInit ==
  /\ script \in {"ingest.mjs", "chroma"}
  /\ ingKey \in BOOLEAN
  /\ clientRaises \in BOOLEAN
  /\ corpus \in Corpora
  /\ ix \in {NoCollection, StaleCollection}
  /\ embBudget = MaxFaults
  /\ ixBudget = MaxIxFaults
  /\ run = [r \in Runs |-> IF r = 1 THEN BootRun ELSE OffRun]
  /\ RetrIdle /\ CosIdle /\ ChunkIdle /\ FmtIdle /\ ChatIdle /\ CleanIdle /\ AttrIdle

ingEnv == <<script, ingKey, clientRaises, corpus>>
otherVars == <<retrVars, cosVars, chunkVars, fmtVars, chatVars, cleanVars, attrVars>>

\* ingest.mjs:9-14, the ChromaDB script:9-13: without the key, exit(1)
IngBoot(r) ==
  /\ run[r].pc = "boot"
  /\ run' = [run EXCEPT ![r] =
       IF KeyMissing(ingKey) THEN Exit(@, 1, ix)
       ELSE [@ EXCEPT !.pc = IF script = "chroma" THEN "reset"
                             ELSE IF script = "ingest_local.mjs" THEN "dataset"
                             ELSE "get"]]
  /\ UNCHANGED <<ingEnv, ix, embBudget, ixBudget, otherVars>>

\* The Qdrant client is not part of the repository. ingest.mjs is written
\* for a client whose failed call raises an error; the query code
\* (retrieval.mjs:26-34) reads failures from the err field of the resolved
\* value. Both are modelled: with clientRaises a failed call raises, without
\* it the call resolves to a value that ingest.mjs does not look at.

\* createCollection after a failed get_collection: the inner catch, or on
\* with the next statement
GetFailed(rr) == [rr EXCEPT !.pc = IF clientRaises THEN "create" ELSE "delete"]

\* createCollection: await client.get_collection(COLLECTION_NAME); the call
\* fails when the collection is absent or the service has an error
GetCollection(r) ==
  /\ run[r].pc = "get"
  /\ \/ /\ ix.exists
        /\ run' = [run EXCEPT ![r].pc = "delete"]
        /\ UNCHANGED ixBudget
     \/ /\ ~ix.exists
        /\ run' = [run EXCEPT ![r] = GetFailed(@)]
        /\ UNCHANGED ixBudget
     \/ /\ MayFault
        /\ ixBudget' = ixBudget - 1
        /\ run' = [run EXCEPT ![r] = GetFailed(Faulted(@, "get"))]
  /\ UNCHANGED <<ingEnv, ix, embBudget, otherVars>>

\* createCollection: await client.delete_collection(COLLECTION_NAME) and the
\* 2 s wait. A raised error is caught by the same inner catch as
\* get_collection's; either way create_collection is next
DeleteCollection(r) ==
  /\ run[r].pc = "delete"
  /\ \/ /\ ix.exists
        /\ ix' = Dropped(ix)
        /\ run' = [run EXCEPT ![r].pc = "create"]
        /\ UNCHANGED ixBudget
     \/ /\ ~ix.exists
        /\ run' = [run EXCEPT ![r].pc = "create"]
        /\ UNCHANGED <<ix, ixBudget>>
     \/ /\ MayFault
        /\ ixBudget' = ixBudget - 1
        /\ \E applied \in BOOLEAN : ix' = IF applied THEN Dropped(ix) ELSE ix
        /\ run' = [run EXCEPT ![r] =
             [Faulted(@, "delete") EXCEPT !.pc = "create"]]
  /\ UNCHANGED <<ingEnv, embBudget, otherVars>>

\* createCollection returns; main goes on with counter = 0 and points = []
Created(rr) ==
  [rr EXCEPT !.pc = "loop", !.created = TRUE, !.counter = 0, !.points = <<>>]

\* a raised error is rethrown by the outer catch to main's catch: exit(1)
CreateFailed(rr, coll) == IF clientRaises THEN Exit(rr, 1, coll) ELSE Created(rr)

\* createCollection: await client.create_collection(...); the call fails
\* when the collection exists or the service has an error
CreateCollection(r) ==
  /\ run[r].pc = "create"
  /\ \/ /\ ~ix.exists
        /\ ix' = FreshCollection
        /\ run' = [run EXCEPT ![r] = Created(@)]
        /\ UNCHANGED ixBudget
     \/ /\ ix.exists
        /\ run' = [run EXCEPT ![r] = CreateFailed(@, ix)]
        /\ UNCHANGED <<ix, ixBudget>>
     \/ /\ MayFault
        /\ ixBudget' = ixBudget - 1
        /\ \E applied \in BOOLEAN :
             /\ ix' = IF applied /\ ~ix.exists THEN FreshCollection ELSE ix
             /\ run' = [run EXCEPT ![r] = CreateFailed(Faulted(@, "create"), ix')]
  /\ UNCHANGED <<ingEnv, embBudget, otherVars>>

\* await: the next embedContent call is made once the previous has settled
MayIssueNoAwait(r) == run[r].pc \in {"loop", "embedding"}

MayIssue(r) == run[r].pc = "loop"

\* the loops reach the next chunk: embeddingModel.embedContent(chunk) is called
IssueEmbed(r) ==
  /\ MayIssue(r)
  /\ HasNext(run[r].pos)
  /\ run' = [run EXCEPT ![r] =
       [@ EXCEPT !.pc = "embedding", !.pos = NextPos(run[r].pos),
                 !.inflight = @ + 1]]
  /\ UNCHANGED <<ingEnv, ix, embBudget, ixBudget, otherVars>>

\* ingest.mjs:136-138: the catch of a chunk logs the error; the loop goes on
CatchChunkRethrow(rr) == Exit(rr, 1, ix)

CatchChunk(rr) == [rr EXCEPT !.pc = "loop"]

\* ingest.mjs:119-138: the call settles. A returned vector is pushed with
\* id counter and counter++; an error is caught and logged.
\* ChromaDB script:52-57: no try/catch, an error ends the process
EmbedReturn(r) ==
  /\ run[r].pc = "embedding"
  /\ \E o \in EmbedOutcomes :
       /\ embBudget' = IF o.kind = "ok" THEN embBudget ELSE embBudget - 1
       /\ LET rr == [run[r] EXCEPT
                       !.inflight = @ - 1,
                       !.embedLog = Append(@, [pos |-> run[r].pos, kind |-> o.kind])]
          IN  run' = [run EXCEPT ![r] =
                IF o.kind = "error"
                THEN IF script = "chroma" THEN Exit(rr, 1, ix)
                     ELSE CatchChunk(rr)
                ELSE IF script = "chroma"
                THEN [rr EXCEPT !.pc = "adding",
                        !.points = <<Point(r, rr.counter, o.dim, rr.pos)>>]
                ELSE IF script = "ingest_local.mjs"
                THEN [rr EXCEPT !.pc = "loop",
                        !.points = Append(@, Point(r, rr.counter, o.dim, rr.pos)),
                        !.writes = Append(@, [file |-> "embedding", n |-> rr.counter]),
                        !.counter = @ + 1]
                ELSE [rr EXCEPT !.pc = "loop",
                        !.points = Append(@, Point(r, rr.counter, o.dim, rr.pos)),
                        !.counter = @ + 1]]
  /\ UNCHANGED <<ingEnv, ix, ixBudget, otherVars>>

\* if (points.length > 0)
ShouldUploadAlways(pts) == TRUE

ShouldUpload(pts) == Len(pts) > 0

\* ingest.mjs:192-201: after the last file, upload_points is called when
\* points is not empty; otherwise a warning and exit(0).
\* ChromaDB script:71-72: the count is logged and exit(0)
FinishLoops(r) ==
  /\ run[r].pc = "loop" /\ script # "ingest_local.mjs"
  /\ ~HasNext(run[r].pos)
  /\ run' = [run EXCEPT ![r] =
       IF script = "chroma"
       THEN Exit([@ EXCEPT !.inserted = run[r].counter], 0, ix)
       ELSE IF ShouldUpload(@.points)
       THEN [@ EXCEPT !.pc = "uploading", !.uploads = Append(@, run[r].points)]
       ELSE Exit([@ EXCEPT !.warned = TRUE], 0, ix)]
  /\ UNCHANGED <<ingEnv, ix, embBudget, ixBudget, otherVars>>

\* ingest.mjs:194-201: the count is logged, exit(0)
Inserted(rr, coll) == Exit([rr EXCEPT !.inserted = rr.counter], 0, coll)

\* a raised error goes to main's catch: exit(1)
UploadFailed(rr, coll) == IF clientRaises THEN Exit(rr, 1, coll) ELSE Inserted(rr, coll)

\* ingest.mjs:193-204: upload_points settles; the call fails when the
\* service does not accept the batch or has an error
UploadReturn(r) ==
  /\ run[r].pc = "uploading"
  /\ \/ /\ Accepts(ix, run[r].points)
        /\ ix' = [ix EXCEPT !.points = Upsert(@, run[r].points)]
        /\ run' = [run EXCEPT ![r] = Inserted(@, ix')]
        /\ UNCHANGED ixBudget
     \/ /\ ~Accepts(ix, run[r].points)
        /\ run' = [run EXCEPT ![r] = UploadFailed(@, ix)]
        /\ UNCHANGED <<ix, ixBudget>>
     \/ /\ MayFault
        /\ ixBudget' = ixBudget - 1
        /\ \E applied \in BOOLEAN :
             /\ ix' = IF applied /\ Accepts(ix, run[r].points)
                      THEN [ix EXCEPT !.points = Upsert(@, run[r].points)]
                      ELSE ix
             /\ run' = [run EXCEPT ![r] = UploadFailed(Faulted(@, "upload"), ix')]
  /\ UNCHANGED <<ingEnv, embBudget, otherVars>>

\* ChromaDB script:19: await chroma.reset(); an error ends the process
ChromaReset(r) ==
  /\ run[r].pc = "reset"
  /\ \/ /\ ix' = NoCollection
        /\ run' = [run EXCEPT ![r].pc = "chromaCreate"]
        /\ UNCHANGED ixBudget
     \/ /\ MayFault
        /\ ixBudget' = ixBudget - 1
        /\ run' = [run EXCEPT ![r] = Exit(Faulted(@, "reset"), 1, ix)]
        /\ UNCHANGED ix
  /\ UNCHANGED <<ingEnv, embBudget, otherVars>>

\* ChromaDB script:20-44: createCollection, then exit(1) when the dataset
\* file is missing, else counter = 0 and the loops
ChromaCreate(r) ==
  /\ run[r].pc = "chromaCreate"
  /\ \/ /\ ~ix.exists
        /\ ix' = [exists |-> TRUE, dim |-> 0, distance |-> "l2", points |-> {}]
        /\ run' = [run EXCEPT ![r] =
             IF corpus[1].present
             THEN [@ EXCEPT !.pc = "loop", !.created = TRUE, !.counter = 0]
             ELSE Exit([@ EXCEPT !.created = TRUE], 1, ix')]
        /\ UNCHANGED ixBudget
     \/ /\ ix.exists
        /\ run' = [run EXCEPT ![r] = Exit(@, 1, ix)]
        /\ UNCHANGED <<ix, ixBudget>>
     \/ /\ MayFault
        /\ ixBudget' = ixBudget - 1
        /\ run' = [run EXCEPT ![r] = Exit(Faulted(@, "create"), 1, ix)]
        /\ UNCHANGED ix
  /\ UNCHANGED <<ingEnv, embBudget, otherVars>>

\* ChromaDB script:59-67: await collection.add(...) of the one chunk, then
\* counter++; an error ends the process
ChromaAdd(r) ==
  /\ run[r].pc = "adding"
  /\ \/ /\ Accepts(ix, run[r].points)
        /\ ix' = [ix EXCEPT !.points = Upsert(@, run[r].points),
                            !.dim = run[r].points[1].dim]
        /\ run' = [run EXCEPT ![r] =
             [@ EXCEPT !.pc = "loop", !.counter = @ + 1,
                       !.uploads = Append(@, run[r].points), !.points = <<>>]]
        /\ UNCHANGED ixBudget
     \/ /\ ~Accepts(ix, run[r].points)
        /\ run' = [run EXCEPT ![r] =
             Exit([@ EXCEPT !.uploads = Append(@, run[r].points)], 1, ix)]
        /\ UNCHANGED <<ix, ixBudget>>
     \/ /\ MayFault
        /\ ixBudget' = ixBudget - 1
        /\ run' = [run EXCEPT ![r] =
             Exit([Faulted(@, "add") EXCEPT !.uploads = Append(@, run[r].points)],
                  1, ix)]
        /\ UNCHANGED ix
  /\ UNCHANGED <<ingEnv, embBudget, otherVars>>

\* ingest_local.mjs:31-46 (the ingestion script): exit(1) when the dataset
\* file is missing; the embeddings directory is made when it is not there
LocalDataset(r) ==
  /\ run[r].pc = "dataset"
  /\ \/ /\ ~corpus[1].present
        /\ run' = [run EXCEPT ![r] = Exit(@, 1, ix)]
     \/ /\ corpus[1].present
        /\ \E dirExists \in BOOLEAN :
             run' = [run EXCEPT ![r] =
               [@ EXCEPT !.pc = "loop", !.counter = 0,
                         !.writes = IF dirExists THEN @
                                    ELSE Append(@, [file |-> "embeddings/", n |-> 0])]]
  /\ UNCHANGED <<ingEnv, ix, embBudget, ixBudget, otherVars>>

\* ingest_local.mjs:82-89: all_embeddings.json is written, exit(0)
LocalFinish(r) ==
  /\ run[r].pc = "loop" /\ script = "ingest_local.mjs"
  /\ ~HasNext(run[r].pos)
  /\ run' = [run EXCEPT ![r] =
       Exit([@ EXCEPT !.inserted = run[r].counter,
                      !.writes = Append(@, [file |-> "all_embeddings.json",
                                            n |-> Len(run[r].points)])],
            0, ix)]
  /\ UNCHANGED <<ingEnv, ix, embBudget, ixBudget, otherVars>>

LocalNext == \E r \in Runs : LocalDataset(r) \/ LocalFinish(r)

QdrantNext ==
  \E r \in Runs :
    \/ IngBoot(r) \/ GetCollection(r) \/ DeleteCollection(r)
    \/ CreateCollection(r) \/ IssueEmbed(r) \/ EmbedReturn(r)
    \/ FinishLoops(r) \/ UploadReturn(r)

ChromaNext ==
  \E r \in Runs : ChromaReset(r) \/ ChromaCreate(r) \/ ChromaAdd(r)

IngNext == QdrantNext \/ ChromaNext

SpecIngest == IngInit /\ [][IngNext]_vars


\* ingest.mjs run a second time once the first process has ended
StartSecond(r) ==
  /\ run[r].pc = "waiting"
  /\ r > 1 /\ run[r - 1].pc = "done"
  /\ run' = [run EXCEPT ![r].pc = "boot"]
  /\ UNCHANGED <<ingEnv, ix, embBudget, ixBudget, otherVars>>

IngTwiceInit ==
  /\ script = "ingest.mjs"
  /\ ingKey = TRUE
  /\ clientRaises \in BOOLEAN
  /\ corpus \in Corpora
  /\ ix \in {NoCollection, StaleCollection}
  /\ embBudget = 0      \* in these runs every embedding call succeeds
  /\ ixBudget = MaxIxFaults
  /\ run = [r \in Runs |-> IF r = 1 THEN BootRun ELSE WaitingRun]
  /\ RetrIdle /\ CosIdle /\ ChunkIdle /\ FmtIdle /\ ChatIdle /\ CleanIdle /\ AttrIdle

IngTwiceNext == QdrantNext \/ \E r \in Runs : StartSecond(r)

SpecIngestTwice == IngTwiceInit /\ [][IngTwiceNext]_vars

\* two processes of ingest.mjs started together over the same documents
IngPairInit ==
  /\ script = "ingest.mjs"
  /\ ingKey = TRUE
  /\ clientRaises \in BOOLEAN
  /\ corpus \in Corpora
  /\ ix \in {NoCollection, StaleCollection}
  /\ embBudget = MaxFaults
  /\ ixBudget = 0
  /\ run = [r \in Runs |-> BootRun]
  /\ RetrIdle /\ CosIdle /\ ChunkIdle /\ FmtIdle /\ ChatIdle /\ CleanIdle /\ AttrIdle

SpecIngestPair == IngPairInit /\ [][QdrantNext]_vars

\* every entry point with or without the API key: the ingestion scripts, the
\* query scripts and retrieveTopK
KeyInit ==
  \/ /\ entry \in {"search.js", "retrieveTopK"}
     /\ apiKey \in BOOLEAN
     /\ topK = DefaultTopK
     /\ localFile \in (IF entry = "search.js" THEN LocalFiles(MaxSearch) ELSE {AbsentFile})
     /\ RetrStart
     /\ CosIdle /\ ChunkIdle /\ IngIdle /\ FmtIdle /\ ChatIdle /\ CleanIdle /\ AttrIdle
  \/ SearchInit
  \/ /\ script \in {"ingest.mjs", "chroma", "ingest_local.mjs"}
     /\ ingKey \in BOOLEAN
     /\ clientRaises = TRUE
     /\ corpus \in Corpora
     /\ ix \in {NoCollection, StaleCollection}
     /\ embBudget = MaxFaults
     /\ ixBudget = 0
     /\ run = [r \in Runs |-> IF r = 1 THEN BootRun ELSE OffRun]
     /\ RetrIdle /\ CosIdle /\ ChunkIdle /\ FmtIdle /\ ChatIdle /\ CleanIdle /\ AttrIdle

KeyNext == Next \/ SearchNext \/ IngNext \/ LocalNext

SpecKey == KeyInit /\ [][KeyNext]_vars

\* C23: while the API key is absent no entry point has made an embedding
\* call, an index call or a file write, and a run that has ended has failed:
\* the scripts with exit status 1, retrieveTopK with a thrown error.
C23_NoKeyNoCalls ==
  /\ (entry # "none" /\ ~apiKey) =>
       /\ calls = <<>> /\ queryVector = <<>> /\ fault = "none"
       /\ pc \in {"boot", "done"}
       /\ pc = "done" =>
            outcome = (IF entry = "retrieveTopK" THEN "thrown" ELSE "exit1")
  /\ (script # "none" /\ ~ingKey) =>
       \A r \in Runs :
         /\ run[r].pc \in {"off", "boot", "done"}
         /\ run[r].embedLog = <<>> /\ run[r].inflight = 0
         /\ run[r].uploads = <<>> /\ run[r].faults = <<>> /\ ~run[r].created
         /\ run[r].writes = <<>> /\ run[r].points = <<>>
         /\ ix \in {NoCollection, StaleCollection}
         /\ run[r].pc = "done" => run[r].exit = 1

\* the local ingestion script has ended without the key
C23_Witness ==
  /\ script = "ingest_local.mjs" /\ ~ingKey /\ corpus[1].present
  /\ run[1].pc = "done" /\ run[1].exit = 1 /\ run[1].writes = <<>>

----------------------------------------------------------------------------
(* Properties of an ingestion run *)

Done(r) == run[r].pc = "done"

\* the chunks of the run whose embedding call settled with the given kind
Settled(r, kind) ==
  {k \in 1..Len(run[r].embedLog) : run[r].embedLog[k].kind = kind}

NumOk(r) == Cardinality(Settled(r, "ok"))
NumFailed(r) == Cardinality(Settled(r, "error"))

\* the payloads of the chunks whose embedding succeeded
OkPayloads(r) == {Payload(run[r].embedLog[k].pos) : k \in Settled(r, "ok")}

\* the payloads the collection held when the run ended
StoredPayloads(r) == {q.payload : q \in run[r].snap.points}

\* the numbers the closing lines of the run print
SummaryNumbers(r) == IF run[r].inserted >= 0 THEN {run[r].inserted} ELSE {}

\* a run that got past the set-up, in which only embedding calls raised
\* errors: no index call failed and every returned vector was well formed
OnlyEmbedErrors(r) ==
  /\ Done(r) /\ run[r].created /\ run[r].faults = <<>>
  /\ Settled(r, "malformed") = {}
  /\ script = "chroma" => corpus[1].present

UploadSucceeded(r) ==
  /\ \A k \in 1..Len(run[r].faults) : run[r].faults[k] # "upload"
  /\ Accepts(run[r].snap, run[r].points)

\* C14: in a run of ingest.mjs the staged records have the ids 0..n-1 in the
\* order staged, n being the number staged (so no two share an id, across
\* source files and whatever chunks failed), counter equals n whenever the
\* run waits, and the count reported as inserted is the number of records
\* of the upload call, all of which the collection holds when the call did
\* not fail.
C14_IdsAreZeroToN ==
  \A r \in Runs :
    script = "ingest.mjs" =>
      /\ \A k \in 1..Len(run[r].points) : run[r].points[k].id = k - 1
      /\ \A j, k \in 1..Len(run[r].points) :
           run[r].points[j].id = run[r].points[k].id => j = k
      /\ run[r].counter = Len(run[r].points)
      /\ run[r].inserted >= 0 =>
           /\ Len(run[r].uploads) = 1
           /\ run[r].inserted = Len(run[r].uploads[1])
           /\ UploadSucceeded(r) =>
                run[r].inserted = Cardinality({q \in run[r].snap.points : q.by = r})

\* an upload of records from two source files, made after a chunk had failed
C14_Witness ==
  /\ script = "ingest.mjs" /\ Done(1) /\ run[1].exit = 0 /\ UploadSucceeded(1)
  /\ Cardinality(ix.points) = run[1].inserted
  /\ run[1].inserted >= 2 /\ NumFailed(1) >= 1
  /\ \E j, k \in 1..Len(run[1].points) :
       run[1].points[j].payload.file # run[1].points[k].payload.file
  /\ run[1].embedLog[1].kind = "error"

\* C15: every record staged or uploaded by ingest.mjs has a vector of exactly VECTOR_SIZE
\* values: a chunk whose embedding has another length is skipped, and the
\* run goes on to a successful end.
C15_VectorsHaveFixedLength ==
  \A r \in Runs : script = "ingest.mjs" =>
    /\ \A k \in 1..Len(run[r].points) : run[r].points[k].dim = VECTOR_SIZE
    /\ \A u \in 1..Len(run[r].uploads) :
         \A k \in 1..Len(run[r].uploads[u]) : run[r].uploads[u][k].dim = VECTOR_SIZE
    /\ (Done(r) /\ run[r].created /\ run[r].faults = <<>>) => run[r].exit = 0

\* the run has asked for an embedding or staged a record
StartedStaging(r) ==
  run[r].inflight > 0 \/ run[r].embedLog # <<>> \/ run[r].points # <<>>

\* C16: in a run of ingest.mjs (with the client createCollection is written
\* for, whose failed calls raise) nothing is embedded or staged before
\* createCollection has returned; when it returns the collection exists, is
\* empty and has size 768 with cosine distance; and a run whose drop or
\* create call failed ends with a nonzero exit and uploads nothing.
C16_RecreatedOrStopped ==
  \A r \in Runs : (script = "ingest.mjs" /\ clientRaises) =>
    /\ StartedStaging(r) => run[r].created
    /\ (run[r].created /\ run[r].pc = "loop" /\ ~StartedStaging(r)) =>
         ix = [exists |-> TRUE, dim |-> 768, distance |-> "Cosine", points |-> {}]
    /\ (Done(r) /\ \E k \in 1..Len(run[r].faults) :
                     run[r].faults[k] \in {"delete", "create"}) =>
         (run[r].exit = 1 /\ run[r].uploads = <<>>)

\* the payloads of a collection with the number of records carrying each
PayloadBag(coll) ==
  [p \in {q.payload : q \in coll.points} |->
     Cardinality({q \in coll.points : q.payload = p})]

\* both runs have ended, every embedding call returned a proper vector and
\* no index call failed
TwiceUndisturbed ==
  /\ Done(1) /\ Done(2)
  /\ \A r \in Runs :
       /\ run[r].faults = <<>>
       /\ \A k \in 1..Len(run[r].embedLog) : run[r].embedLog[k].kind = "ok"

\* C17: after ingest.mjs has run twice in sequence over the same documents,
\* every embedding call succeeding, both runs have ended with exit 0 and the
\* collection holds as many records, with the same payloads as often, as
\* after the first run: one record per chunk, each uploaded by the second
\* run, none left from the first.
C17_SecondRunReplacesFirst ==
  TwiceUndisturbed =>
    /\ run[1].exit = 0 /\ run[2].exit = 0
    /\ ix = run[2].snap
    /\ Cardinality(run[2].snap.points) = Cardinality(run[1].snap.points)
    /\ PayloadBag(run[2].snap) = PayloadBag(run[1].snap)
    /\ Cardinality(ix.points) = Cardinality(Positions)
    /\ \A q \in ix.points : q.by = 2

C17_Witness ==
  /\ TwiceUndisturbed
  /\ run[1].inserted >= 2 /\ run[2].inserted = run[1].inserted
  /\ Cardinality(ix.points) = run[1].inserted
  /\ \A q \in run[1].snap.points : q.by = 1
  /\ \A q \in ix.points : q.by = 2

\* the ids and payloads of the records a run staged
StagedRecords(r) ==
  {[id |-> run[r].points[k].id, payload |-> run[r].points[k].payload] :
     k \in 1..Len(run[r].points)}

\* C26: when two runs of ingest.mjs that were started together have both
\* ended with a successful upload, the collection holds exactly the records
\* one of them staged, all uploaded by that run, and no chunk content under
\* two ids.
C26_OneCompleteRunRemains ==
  (Done(1) /\ Done(2) /\ UploadSucceeded(1) /\ UploadSucceeded(2)) =>
    /\ \E r \in Runs :
         /\ ix.exists
         /\ {[id |-> q.id, payload |-> q.payload] : q \in ix.points} = StagedRecords(r)
         /\ \A q \in ix.points : q.by = r
    /\ \A q1, q2 \in ix.points : q1.payload = q2.payload => q1.id = q2.id

\* the positions whose embedding call has settled, in the order they settled
LoggedPositions(r) == [k \in 1..Len(run[r].embedLog) |-> run[r].embedLog[k].pos]

FileDocChunkBefore(a, b) ==
  \/ a[1] < b[1]
  \/ a[1] = b[1] /\ a[2] < b[2]
  \/ a[1] = b[1] /\ a[2] = b[2] /\ a[3] < b[3]

\* the position of the chunk a staged record was made from
StagedPos(q) == <<q.payload.file, q.payload.doc, q.payload.chunk_index>>

\* C19: a run of ingest.mjs has at most one embedding call in flight; the
\* calls settle, and the records are staged, in the order of source file,
\* then document, then chunk index, no chunk being passed over; and the id of
\* a staged record is the number of chunks before it in that order minus the
\* number of those whose embedding raised an error.
C19_SequentialDeterministicOrder ==
  \A r \in Runs : script = "ingest.mjs" =>
    LET all    == Positions
        logged == LoggedPositions(r)
        failed == {logged[j] : j \in Settled(r, "error")}
        staged == [k \in 1..Len(run[r].points) |-> StagedPos(run[r].points[k])]
    IN  /\ run[r].inflight <= 1
        /\ run[r].inflight = 1 <=> run[r].pc = "embedding"
        /\ \A k \in 1..Len(logged) - 1 : FileDocChunkBefore(logged[k], logged[k + 1])
        /\ \A k \in 1..Len(logged) :
             {q \in all : FileDocChunkBefore(q, logged[k])}
               = {logged[j] : j \in 1..k - 1}
        /\ \A k \in 1..Len(staged) - 1 : FileDocChunkBefore(staged[k], staged[k + 1])
        /\ \A k \in 1..Len(staged) :
             run[r].points[k].id =
               Cardinality({q \in all : FileDocChunkBefore(q, staged[k])})
               - Cardinality({q \in failed : FileDocChunkBefore(q, staged[k])})

\* records of two chunks of one document and of a later file, staged after
\* the first chunk of the run had failed
C19_Witness ==
  /\ script = "ingest.mjs" /\ run[1].pc = "loop" /\ ~HasNext(run[1].pos)
  /\ Len(run[1].embedLog) >= 4
  /\ run[1].embedLog[1].kind = "error"
  /\ \E j, k \in 1..Len(run[1].points) :
       /\ StagedPos(run[1].points[j])[1] = StagedPos(run[1].points[k])[1]
       /\ StagedPos(run[1].points[j])[2] = StagedPos(run[1].points[k])[2]
       /\ j # k
  /\ \E k \in 1..Len(run[1].points) :
       StagedPos(run[1].points[k])[1] > StagedPos(run[1].points[1])[1]

----------------------------------------------------------------------------
(* formatContextForPrompt(hits), lib/retrieval.mjs *)

\* JavaScript values: undefined, null, a string, a number
Undefined == [t |-> "undefined", s |-> "", n |-> 0]
Null      == [t |-> "null", s |-> "", n |-> 0]
Str(x)    == [t |-> "string", s |-> x, n |-> 0]
Num(k)    == [t |-> "number", s |-> "", n |-> k]

Falsy(v) ==
  \/ v.t \in {"undefined", "null"}
  \/ v.t = "string" /\ v.s = ""
  \/ v.t = "number" /\ v.n = 0
Nullish(v) == v.t \in {"undefined", "null"}

\* a || b
Or(a, b) == IF Falsy(a) THEN b ELSE a

\* a ?? b
CoalesceFalsy(a, b) == IF Falsy(a) THEN b ELSE a

Coalesce(a, b) == IF Nullish(a) THEN b ELSE a

\* `${v}`: the text a template literal puts for a value
ToStr(v) ==
  CASE v.t = "string" -> v.s
    [] v.t = "number" -> ToString(v.n)
    [] v.t = "null" -> "null"
    [] OTHER -> "undefined"

Pad3(k) ==
  IF k < 10 THEN "00" \o ToString(k)
  ELSE IF k < 100 THEN "0" \o ToString(k) ELSE ToString(k)

\* x.toFixed(3) of the score x / 10000, 0 <= x, away from the half-way cases
ToFixed3(x) ==
  LET r == (x + 5) \div 10
  IN  ToString(r \div 1000) \o "." \o Pad3(r % 1000)

\* h.score?.toFixed?.(3) ?? h.score: a score is held in ten-thousandths
ScoreText(v) == IF v.t = "number" THEN ToFixed3(v.n) ELSE ToStr(v)

Titles       == {Undefined, Str(""), Str("Le Morne")}
Contents     == {Undefined, Str("Sand.")}
ChunkIndexes == {Undefined, Null, Num(0), Num(1)}
Scores       == {Undefined, Num(8766)}

Hits == [title : Titles, content : Contents, chunkIndex : ChunkIndexes,
         score : Scores]

\* the block of the hit h at index i (from 0) of the list; the dash of the
\* template, U+2014, is written "-"
Block(h, i) ==
  "Source " \o ToString(i + 1) \o " - " \o ToStr(Or(h.title, Str("Untitled")))
    \o " (chunk " \o ToStr(Coalesce(h.chunkIndex, Str("?")))
    \o ", score " \o ScoreText(h.score) \o ")"
    \o "\n" \o ToStr(Or(h.content, Str("")))

\* blocks.join("\n\n---\n\n")
RECURSIVE JoinBlocks(_, _)
JoinBlocks(list, i) ==
  IF i >= Len(list) THEN ""
  ELSE Block(list[i + 1], i)
         \o (IF i + 1 < Len(list) THEN "\n\n---\n\n" ELSE "")
         \o JoinBlocks(list, i + 1)

\* the list ranked anew by falling score before it is rendered
formatContextReranked(h) ==
  IF ~h.given \/ Len(h.list) = 0 THEN ""
  ELSE IF /\ Len(h.list) >= 2
          /\ h.list[1].score.t = "number" /\ h.list[2].score.t = "number"
          /\ h.list[1].score.n < h.list[2].score.n
       THEN JoinBlocks(<<h.list[2], h.list[1]>> \o SubSeq(h.list, 3, Len(h.list)), 0)
       ELSE JoinBlocks(h.list, 0)

formatContextForPrompt(h) ==
  IF ~h.given \/ Len(h.list) = 0 THEN "" ELSE JoinBlocks(h.list, 0)

FmtInit ==
  /\ fmtHits \in {[given |-> FALSE, list |-> <<>>]}
       \cup {[given |-> TRUE, list |-> l] : l \in SeqsUpTo(Hits, MaxHits)}
  /\ context = ""
  /\ fmtPc = "called"
  /\ RetrIdle /\ CosIdle /\ ChunkIdle /\ IngIdle /\ ChatIdle /\ CleanIdle /\ AttrIdle

FmtReturn ==
  /\ fmtPc = "called"
  /\ context' = formatContextForPrompt(fmtHits)
  /\ fmtPc' = "returned"
  /\ UNCHANGED <<fmtHits, retrVars, cosVars, chunkVars, ingVars, chatVars,
                 cleanVars, attrVars>>

FmtNext == FmtReturn

SpecFormat == FmtInit /\ [][FmtNext]_vars

\* lists of hits that differ in their scores, in any order of the scores
RankedHits == [title : {Undefined, Str("Le Morne")}, content : {Str("Sand.")},
               chunkIndex : {Num(0), Num(1)},
               score : {Undefined, Num(8766), Num(9120)}]

FmtRankedInit ==
  /\ fmtHits \in {[given |-> TRUE, list |-> l] : l \in SeqsUpTo(RankedHits, MaxHits + 1)}
  /\ context = ""
  /\ fmtPc = "called"
  /\ RetrIdle /\ CosIdle /\ ChunkIdle /\ IngIdle /\ ChatIdle /\ CleanIdle /\ AttrIdle

SpecFormatRanked == FmtRankedInit /\ [][FmtNext]_vars

\* t occurs in s
Contains(s, t) ==
  \E i \in 1..(Len(s) - Len(t) + 1) : SubSeq(s, i, i + Len(t) - 1) = t

\* C20: formatContextForPrompt returns "" for an empty or missing list; for
\* a list of one hit the result holds the hit's title after the rank and the
\* hit's content as its last line, both unchanged; a missing title is given
\* as "Untitled", a missing chunk index as "?", and the chunk index 0 as 0.
C20_SingleHitRendering ==
  fmtPc = "returned" =>
    /\ (~fmtHits.given \/ fmtHits.list = <<>>) => context = ""
    /\ (fmtHits.given /\ Len(fmtHits.list) = 1) =>
         LET h == fmtHits.list[1]
         IN  /\ context # ""
             /\ (h.title.t = "string" /\ h.title.s # "") =>
                  Contains(context, "Source 1 - " \o h.title.s \o " (chunk ")
             /\ h.content.t = "string" =>
                  SubSeq(context, Len(context) - Len(h.content.s), Len(context))
                    = "\n" \o h.content.s
             /\ h.title.t \in {"undefined", "null"} =>
                  Contains(context, "Source 1 - Untitled (chunk ")
             /\ h.chunkIndex.t \in {"undefined", "null"} =>
                  Contains(context, " (chunk ?, score ")
             /\ (h.chunkIndex.t = "number" /\ h.chunkIndex.n = 0) =>
                  /\ Contains(context, " (chunk 0, score ")
                  /\ ~Contains(context, "?")

\* one hit with a title, a content and the chunk index 0 has been rendered
C20_Witness ==
  /\ fmtPc = "returned" /\ fmtHits.given /\ Len(fmtHits.list) = 1
  /\ fmtHits.list[1].title = Str("Le Morne")
  /\ fmtHits.list[1].content = Str("Sand.")
  /\ fmtHits.list[1].chunkIndex = Num(0)
  /\ fmtHits.list[1].score = Num(8766)
  /\ context = "Source 1 - Le Morne (chunk 0, score 0.877)\nSand."

\* the place of the first occurrence of t in s at or after i, 0 when none
RECURSIVE IndexOf(_, _, _)
IndexOf(s, t, i) ==
  IF i + Len(t) - 1 > Len(s) THEN 0
  ELSE IF SubSeq(s, i, i + Len(t) - 1) = t THEN i
  ELSE IndexOf(s, t, i + 1)

\* the parts of s between the occurrences of sep
RECURSIVE Split(_, _)
Split(s, sep) ==
  LET i == IndexOf(s, sep, 1)
  IN  IF i = 0 THEN <<s>>
      ELSE <<SubSeq(s, 1, i - 1)>> \o Split(SubSeq(s, i + Len(sep), Len(s)), sep)

StartsWith(s, t) == Len(s) >= Len(t) /\ SubSeq(s, 1, Len(t)) = t

\* C21: for a list of n >= 1 hits the result of formatContextForPrompt is
\* n blocks between separators; the k-th block is the block of the k-th hit
\* of the list, opens with "Source k", and carries that hit's score text.
C21_BlocksInInputOrder ==
  (fmtPc = "returned" /\ fmtHits.given /\ Len(fmtHits.list) >= 1) =>
    LET blocks == Split(context, "\n\n---\n\n")
    IN  /\ Len(blocks) = Len(fmtHits.list)
        /\ \A k \in 1..Len(fmtHits.list) :
             /\ StartsWith(blocks[k], "Source " \o ToString(k) \o " - ")
             /\ Contains(blocks[k], ", score " \o ScoreText(fmtHits.list[k].score) \o ")\n")
             /\ blocks[k] = Block(fmtHits.list[k], k - 1)

\* two hits, the lower score first, have been rendered in that order
C21_Witness ==
  /\ fmtPc = "returned" /\ fmtHits.given /\ Len(fmtHits.list) = 2
  /\ fmtHits.list[1].score = Num(8766) /\ fmtHits.list[2].score = Num(9120)
  /\ fmtHits.list[1].title = Str("Le Morne") /\ fmtHits.list[2].title = Undefined
  /\ StartsWith(context, "Source 1 - Le Morne (chunk ")
  /\ Contains(context, "score 0.877)")
  /\ Contains(context, "\n\n---\n\nSource 2 - Untitled (chunk ")

----------------------------------------------------------------------------
(* The chat endpoint, POST of /api/agent *)

\* new HumanMessage(...), new AIMessage(...), and the value of a map
\* callback that returns nothing
HumanMessage(c) == [role |-> "human", content |-> c]
AIMessage(c)    == [role |-> "ai", content |-> c]
NoMessage       == [role |-> "undefined", content |-> ""]

\* history.map((msg) => ...)
MapEntry(msg) ==
  IF msg.type = "user" THEN HumanMessage(msg.message)
  ELSE IF msg.type = "assistant" THEN AIMessage(msg.message)
  ELSE NoMessage

mappedHistory(history) == [k \in 1..Len(history) |-> MapEntry(history[k])]

systemPreamble(contextBlock) ==
  AIMessage((IF contextBlock # ""
             THEN "Use the following context to answer. If context is insufficient, say so.\nContext:\n"
                    \o contextBlock
             ELSE "No external context available. Answer concisely.")
            \o "\nAlways provide short, factual answers.\n")

\* what retrieveTopK(message, 5) may resolve to
Retrieved ==
  {<<>>, <<[title |-> Str("Le Morne"), content |-> Str("Sand."),
            chunkIndex |-> Num(0), score |-> Num(8766)]>>}

\* the texts chunk.content of the generation stream; the letter E stands for
\* a character of two bytes in UTF-8 (U+00C9)
GenChunks == {"a", "Eb"}

CharBytes(c) == IF c = "E" THEN <<195, 137>> ELSE IF c = "a" THEN <<97>> ELSE <<98>>

\* textEncoder.encode(str)
RECURSIVE TextEncode(_)
TextEncode(str) ==
  IF str = "" THEN <<>>
  ELSE CharBytes(SubSeq(str, 1, 1)) \o TextEncode(SubSeq(str, 2, Len(str)))

\* the catch of POST: status 500 and a JSON body {error}
Catch(c, why) ==
  [c EXCEPT !.spc = "ended", !.status = 500, !.ctype = "application/json",
            !.errorBody = TRUE, !.failure = why]

\* const { message, history } = await req.json()
ReqJson(s) ==
  /\ conn[s].spc = "json"
  /\ conn' = [conn EXCEPT ![s] = IF conn[s].body.parsable
                                 THEN [@ EXCEPT !.spc = "map"]
                                 ELSE Catch(@, "body")]
  /\ UNCHANGED <<chatMessages, inputMessage, isLoading, lastSend, sendsLeft>>
  /\ UNCHANGED <<retrVars, cosVars, chunkVars, ingVars, fmtVars, cleanVars, attrVars>>

\* history.map(...): a TypeError when the body has no history
MapHistory(s) ==
  /\ conn[s].spc = "map"
  /\ conn' = [conn EXCEPT ![s] =
                IF conn[s].body.given
                THEN [@ EXCEPT !.spc = "retrieve",
                               !.mapped = mappedHistory(conn[s].body.history)]
                ELSE Catch(@, "body")]
  /\ UNCHANGED <<chatMessages, inputMessage, isLoading, lastSend, sendsLeft>>
  /\ UNCHANGED <<retrVars, cosVars, chunkVars, ingVars, fmtVars, cleanVars, attrVars>>

\* await retrieveTopK(message, 5); formatContextForPrompt(retrieved)
Retrieve(s) ==
  /\ conn[s].spc = "retrieve"
  /\ \/ conn' = [conn EXCEPT ![s] = Catch(@, "retrieval")]
     \/ \E hits \in Retrieved :
          conn' = [conn EXCEPT ![s].spc = "open",
                               ![s].contextBlock =
                                 formatContextForPrompt([given |-> TRUE, list |-> hits])]
  /\ UNCHANGED <<chatMessages, inputMessage, isLoading, lastSend, sendsLeft>>
  /\ UNCHANGED <<retrVars, cosVars, chunkVars, ingVars, fmtVars, cleanVars, attrVars>>

\* the list given to model.stream
ModelInput(c) ==
  <<systemPreamble(c.contextBlock)>> \o c.mapped \o <<HumanMessage(c.body.message)>>

\* await model.stream([...]) raises an error, or the Response with the
\* ReadableStream is returned: status 200, text/plain
OpenStream(s) ==
  /\ conn[s].spc = "open"
  /\ \/ conn' = [conn EXCEPT ![s] =
                   Catch([@ EXCEPT !.modelInput = ModelInput(conn[s])], "generation")]
     \/ \E gen \in SeqsUpTo(GenChunks, MaxGen) :
          conn' = [conn EXCEPT ![s].modelInput = ModelInput(conn[s]),
                               ![s].genLeft = gen,
                               ![s].spc = "streaming",
                               ![s].status = 200,
                               ![s].ctype = "text/plain",
                               ![s].sstate = "open"]
  /\ UNCHANGED <<chatMessages, inputMessage, isLoading, lastSend, sendsLeft>>
  /\ UNCHANGED <<retrVars, cosVars, chunkVars, ingVars, fmtVars, cleanVars, attrVars>>

\* start(controller): controller.enqueue(textEncoder.encode(chunk.content))
StreamChunk(s) ==
  /\ conn[s].spc = "streaming" /\ conn[s].genLeft # <<>>
  /\ conn' = [conn EXCEPT ![s].wire = @ \o TextEncode(Head(conn[s].genLeft)),
                          ![s].genLeft = Tail(@)]
  /\ UNCHANGED <<chatMessages, inputMessage, isLoading, lastSend, sendsLeft>>
  /\ UNCHANGED <<retrVars, cosVars, chunkVars, ingVars, fmtVars, cleanVars, attrVars>>

\* start(controller): the generation stream is at its end, controller.close()
StreamClose(s) ==
  /\ conn[s].spc = "streaming" /\ conn[s].genLeft = <<>>
  /\ conn' = [conn EXCEPT ![s].spc = "ended", ![s].sstate = "closed"]
  /\ UNCHANGED <<chatMessages, inputMessage, isLoading, lastSend, sendsLeft>>
  /\ UNCHANGED <<retrVars, cosVars, chunkVars, ingVars, fmtVars, cleanVars, attrVars>>

\* start(controller): the generation stream raises an error inside for await;
\* the Response has been returned, its stream becomes errored
StreamError(s) ==
  /\ conn[s].spc = "streaming"
  /\ conn' = [conn EXCEPT ![s].spc = "ended", ![s].sstate = "errored",
                          ![s].failure = "streaming"]
  /\ UNCHANGED <<chatMessages, inputMessage, isLoading, lastSend, sendsLeft>>
  /\ UNCHANGED <<retrVars, cosVars, chunkVars, ingVars, fmtVars, cleanVars, attrVars>>

POST(s) ==
  \/ ReqJson(s)
  \/ MapHistory(s)
  \/ Retrieve(s)
  \/ OpenStream(s)
  \/ StreamChunk(s)
  \/ StreamClose(s)
  \/ StreamError(s)

\* the entries a caller may put into a history
HistoryEntries ==
  {[type |-> "user", message |-> "hi"], [type |-> "assistant", message |-> "a"],
   [type |-> "system", message |-> "An error occurred. Please try again."]}

\* the bodies a caller may send: not JSON, without a history, with one
ApiBodies ==
  {NoBody, [parsable |-> TRUE, message |-> "hi", given |-> FALSE, history |-> <<>>]}
    \cup {[parsable |-> TRUE, message |-> "hi", given |-> TRUE, history |-> h] :
            h \in SeqsUpTo(HistoryEntries, MaxHistory)}

ApiInit ==
  /\ chatMessages = <<>> /\ inputMessage = "" /\ isLoading = FALSE
  /\ lastSend = "none" /\ sendsLeft = 0
  /\ \E b \in ApiBodies :
       conn = [s \in Sends |-> IF s = 1 THEN [OffConn EXCEPT !.spc = "json", !.body = b]
                                ELSE OffConn]
  /\ RetrIdle /\ CosIdle /\ ChunkIdle /\ IngIdle /\ FmtIdle /\ CleanIdle /\ AttrIdle

ApiNext == \E s \in Sends : POST(s)

SpecApi == ApiInit /\ [][ApiNext]_vars

\* C22: a request that met a failure has been answered with a status other
\* than 200 and a JSON {error} body, and a response with status 200 and
\* text/plain belongs to a request whose generation stream ended without an
\* error.
C22_FailuresAreNon200 ==
  \A s \in Sends : conn[s].spc = "ended" =>
    /\ conn[s].failure # "none" =>
         /\ conn[s].status # 200
         /\ conn[s].ctype = "application/json" /\ conn[s].errorBody
    /\ (conn[s].status = 200 /\ conn[s].ctype = "text/plain") =>
         conn[s].sstate = "closed" /\ conn[s].failure = "none"

----------------------------------------------------------------------------
(* The chat page, app/page.js, talking to the chat endpoint *)

\* what the user may have in the text field
Inputs == {"", " ", " hi"}

\* str.trim() of a text whose only white space is the space
RECURSIVE TrimStart(_)
TrimStart(str) ==
  IF str # "" /\ SubSeq(str, 1, 1) = " " THEN TrimStart(SubSeq(str, 2, Len(str)))
  ELSE str

RECURSIVE TrimEnd(_)
TrimEnd(str) ==
  IF str # "" /\ SubSeq(str, Len(str), Len(str)) = " "
  THEN TrimEnd(SubSeq(str, 1, Len(str) - 1))
  ELSE str

Trim(str) == TrimEnd(TrimStart(str))

NumSends == Cardinality({s \in Sends : conn[s].ppc # "none"})

pageOther == <<retrVars, cosVars, chunkVars, ingVars, fmtVars, cleanVars, attrVars>>

\* onChange of the text field, which is disabled while isLoading
TypeInput ==
  /\ ~isLoading
  /\ \E v \in Inputs \ {inputMessage} : inputMessage' = v
  /\ UNCHANGED <<chatMessages, isLoading, lastSend, sendsLeft, conn, pageOther>>

\* if (inputMessage.trim() === "" || isLoading) return;
MaySendAlways == TRUE

MaySend == ~(Trim(inputMessage) = "" \/ isLoading)

ErrorMessage == [type |-> "system", message |-> "An error occurred. Please try again."]

\* handleSendMessage up to its first await: the guard, the user message, the
\* cleared input, isLoading, and the request with the body of lines 41-44
handleSendMessage ==
  IF MaySend
  THEN /\ sendsLeft > 0
       /\ sendsLeft' = sendsLeft - 1
       /\ LET s == NumSends + 1
              userMessage == [type |-> "user", message |-> inputMessage]
          IN  /\ chatMessages' = Append(chatMessages, userMessage)
              /\ conn' = [conn EXCEPT ![s] =
                            [OffConn EXCEPT
                               !.ppc = "fetching", !.spc = "json",
                               !.prior = chatMessages,
                               !.body = [parsable |-> TRUE,
                                         message |-> inputMessage,
                                         given |-> TRUE,
                                         history |-> Append(chatMessages, userMessage)]]]
       /\ inputMessage' = ""
       /\ isLoading' = TRUE
       /\ lastSend' = "accepted"
       /\ UNCHANGED pageOther
  ELSE /\ lastSend' = "ignored"
       /\ UNCHANGED <<chatMessages, inputMessage, isLoading, sendsLeft, conn, pageOther>>

\* a call of handleSendMessage that has returned: its locals and its
\* response are gone
Returned(how) == [OffConn EXCEPT !.ppc = how]

\* catch and finally of handleSendMessage
Failed(s) ==
  /\ chatMessages' = Append(chatMessages, ErrorMessage)
  /\ isLoading' = FALSE
  /\ conn' = [conn EXCEPT ![s] = Returned("failed")]

\* await fetch(...) settles: it rejects, or the response is not ok, or the
\* assistant message is put into the chat and the reader is taken
FetchReturn(s) ==
  /\ conn[s].ppc = "fetching"
  /\ \/ Failed(s)
     \/ /\ conn[s].status # 0 /\ conn[s].status # 200
        /\ Failed(s)
     \/ /\ conn[s].status = 200
        /\ chatMessages' = Append(chatMessages, [type |-> "assistant", message |-> ""])
        /\ conn' = [conn EXCEPT ![s].ppc = "reading"]
        /\ UNCHANGED isLoading
  /\ UNCHANGED <<inputMessage, lastSend, sendsLeft, pageOther>>

\* decoder.decode(value) without {stream: true}: bytes of an unfinished
\* character become U+FFFD, written "?"
RECURSIVE TextDecodeFlush(_)
TextDecodeFlush(buf) ==
  IF buf = <<>> THEN [out |-> "", pending |-> <<>>]
  ELSE IF Head(buf) = 195 /\ Len(buf) >= 2 /\ buf[2] = 137
       THEN LET r == TextDecodeFlush(SubSeq(buf, 3, Len(buf)))
            IN  [out |-> "E" \o r.out, pending |-> r.pending]
  ELSE LET r == TextDecodeFlush(Tail(buf))
       IN  [out |-> (IF Head(buf) = 97 THEN "a" ELSE IF Head(buf) = 98 THEN "b" ELSE "?")
                      \o r.out,
            pending |-> r.pending]

\* decoder.decode(value, {stream: true}) on the bytes kept from the last call
\* followed by value: the text, and the bytes of an unfinished character
RECURSIVE TextDecode(_)
TextDecode(buf) ==
  IF buf = <<>> THEN [out |-> "", pending |-> <<>>]
  ELSE IF buf = <<195>> THEN [out |-> "", pending |-> buf]
  ELSE IF Head(buf) = 195 /\ buf[2] = 137
       THEN LET r == TextDecode(SubSeq(buf, 3, Len(buf)))
            IN  [out |-> "E" \o r.out, pending |-> r.pending]
  ELSE LET r == TextDecode(Tail(buf))
       IN  [out |-> (IF Head(buf) = 97 THEN "a" ELSE IF Head(buf) = 98 THEN "b" ELSE "?")
                      \o r.out,
            pending |-> r.pending]

\* await reader.read() settles: with a value (any bytes that have arrived),
\* with done, or with an error
ReadReturn(s) ==
  /\ conn[s].ppc = "reading"
  /\ \/ \E k \in 1..Len(conn[s].wire) :
          LET value == SubSeq(conn[s].wire, 1, k)
              d == TextDecode(conn[s].pending \o value)
              message == conn[s].assistant \o d.out
              last == Len(chatMessages)
          IN  /\ chatMessages' =
                   [chatMessages EXCEPT ![last] = [@ EXCEPT !.message = message]]
              /\ conn' = [conn EXCEPT ![s].assistant = message,
                                      ![s].pending = d.pending,
                                      ![s].rcvd = @ \o value,
                                      ![s].wire = SubSeq(@, k + 1, Len(@))]
              /\ UNCHANGED isLoading
     \/ /\ conn[s].wire = <<>> /\ conn[s].sstate = "closed"
        /\ isLoading' = FALSE
        /\ conn' = [conn EXCEPT ![s] = Returned("done")]
        /\ UNCHANGED chatMessages
     \/ Failed(s)
  /\ UNCHANGED <<inputMessage, lastSend, sendsLeft, pageOther>>

\* the page as it is mounted
Mounted(n) ==
  /\ chatMessages = <<>> /\ inputMessage = "" /\ isLoading = FALSE
  /\ lastSend = "none" /\ sendsLeft = n /\ conn = [s \in Sends |-> OffConn]

ChatFairInit ==
  /\ Mounted(MaxFairSends)
  /\ RetrIdle /\ CosIdle /\ ChunkIdle /\ IngIdle /\ FmtIdle /\ CleanIdle /\ AttrIdle

ChatInit ==
  /\ Mounted(MaxSends)
  /\ RetrIdle /\ CosIdle /\ ChunkIdle /\ IngIdle /\ FmtIdle /\ CleanIdle /\ AttrIdle

\* the endpoint runs for a request whose caller is waiting
Serve(s) == conn[s].ppc \in {"fetching", "reading"} /\ POST(s)

ChatNext ==
  \/ TypeInput
  \/ handleSendMessage
  \/ \E s \in Sends : FetchReturn(s)
  \/ \E s \in Sends : ReadReturn(s)
  \/ \E s \in Sends : Serve(s)

SpecChat == ChatInit /\ [][ChatNext]_vars

\* every await of handleSendMessage settles: fetch and reader.read() resolve
\* or reject
SpecChatFair ==
  /\ ChatFairInit /\ [][ChatNext]_vars
  /\ \A s \in Sends : WF_vars(FetchReturn(s)) /\ WF_vars(ReadReturn(s))

InFlight(s) == conn[s].ppc \in {"fetching", "reading"}

\* C27: the list given to model.stream for a request of the chat page is
\* the context preamble, then one message for each prior turn of the chat,
\* then the new user message as the last element and nowhere else; no element
\* is undefined.
C27_UserMessageOnceAndLast ==
  \A s \in Sends : (InFlight(s) /\ conn[s].modelInput # <<>>) =>
    LET m == conn[s].modelInput
    IN  /\ Len(m) = Len(conn[s].prior) + 2
        /\ m[1] = systemPreamble(conn[s].contextBlock)
        /\ m[Len(m)] = HumanMessage(conn[s].body.message)
        /\ \A k \in 1..Len(m) : m[k].role # "undefined"

\* C28: every entry of the history in a body the chat page has sent has the
\* type "user" or "assistant".
C28_HistoryTypes ==
  \A s \in Sends : InFlight(s) =>
    \A k \in 1..Len(conn[s].body.history) :
      conn[s].body.history[k].type \in {"user", "assistant"}

UserCount(msgs) == Cardinality({k \in 1..Len(msgs) : msgs[k].type = "user"})

\* C29: at most one request of the chat page is in flight; in a state where
\* isLoading is true or the input is empty after trimming no step issues a
\* request, appends a user message or clears the input, and a call of
\* handleSendMessage that was ignored has changed nothing on the page.
C29_OneRequestGuardedSend ==
  /\ [](Cardinality({s \in Sends : InFlight(s)}) <= 1)
  /\ [][/\ (isLoading \/ Trim(inputMessage) = "") =>
             /\ NumSends' = NumSends
             /\ UserCount(chatMessages') = UserCount(chatMessages)
             /\ isLoading => inputMessage' = inputMessage
        /\ (lastSend' = "ignored" /\ lastSend # "ignored") =>
             /\ isLoading \/ Trim(inputMessage) = ""
             /\ UNCHANGED <<chatMessages, inputMessage, isLoading, conn>>
       ]_vars

\* a call of handleSendMessage was ignored while a request is in flight
C29_Witness ==
  /\ lastSend = "ignored" /\ isLoading
  /\ \E s \in Sends : InFlight(s)
  /\ Len(chatMessages) >= 1

\* C30: every accepted send returns, and the step in which it returns sets
\* isLoading to false; when it returns after the stream ended, the last chat
\* message is the assistant message whose text is the text of all received
\* bytes in their order, and the messages before it are those of the chat
\* when the request was sent; a streaming update changes the last message
\* only; when it returns after a failure, the error message of type system
\* is appended once.
C30_SendSettles ==
  /\ \A s \in Sends : InFlight(s) ~> (conn[s].ppc \in {"done", "failed"})
  /\ [][\A s \in Sends :
          /\ (InFlight(s) /\ conn'[s].ppc = "done") =>
               /\ isLoading' = FALSE
               /\ chatMessages' = chatMessages
               /\ chatMessages[Len(chatMessages)].type = "assistant"
               /\ TextEncode(chatMessages[Len(chatMessages)].message) = conn[s].rcvd
               /\ SubSeq(chatMessages, 1, Len(chatMessages) - 1) = conn[s].body.history
          /\ (InFlight(s) /\ conn'[s].ppc = "failed") =>
               /\ isLoading' = FALSE
               /\ chatMessages' = Append(chatMessages, ErrorMessage)
          /\ (conn[s].ppc = "reading" /\ conn'[s].ppc = "reading") =>
               /\ Len(chatMessages') = Len(chatMessages)
               /\ SubSeq(chatMessages', 1, Len(chatMessages) - 1)
                    = SubSeq(chatMessages, 1, Len(chatMessages) - 1)
               /\ chatMessages'[Len(chatMessages)].type = "assistant"
       ]_vars

\* a send has returned after its stream was read to the end
C30_Witness ==
  /\ conn[1].ppc = "done" /\ ~isLoading
  /\ chatMessages = <<[type |-> "user", message |-> " hi"],
                      [type |-> "assistant", message |-> "Eb"]>>

----------------------------------------------------------------------------
(* cleanText(text), ingest.mjs and the other ingestion scripts *)

\* the characters of the texts: two letters and three white space characters
CleanChars == {"a", "b", " ", "\n", "\t"}

\* \s of the regular expression
IsSpace(c) == c \in {" ", "\n", "\t"}

RECURSIVE Texts(_)
Texts(n) ==
  IF n = 0 THEN {""}
  ELSE LET shorter == Texts(n - 1)
       IN  shorter \cup {t \o c : t \in shorter, c \in CleanChars}

RECURSIVE SkipSpaces(_)
SkipSpaces(str) ==
  IF str # "" /\ IsSpace(SubSeq(str, 1, 1)) THEN SkipSpaces(SubSeq(str, 2, Len(str)))
  ELSE str

\* text.replace(/\s+/g, " ")
RECURSIVE ReplaceRuns(_)
ReplaceRuns(str) ==
  IF str = "" THEN ""
  ELSE IF IsSpace(SubSeq(str, 1, 1)) THEN " " \o ReplaceRuns(SkipSpaces(str))
  ELSE SubSeq(str, 1, 1) \o ReplaceRuns(SubSeq(str, 2, Len(str)))

\* the replacement without the trim
cleanTextNoTrim(str) == ReplaceRuns(str)

cleanText(str) == Trim(ReplaceRuns(str))

CleanInit ==
  /\ rawText \in Texts(MaxCleanLen)
  /\ cleaned = "" /\ cleanPc = "called"
  /\ RetrIdle /\ CosIdle /\ ChunkIdle /\ IngIdle /\ FmtIdle /\ ChatIdle /\ AttrIdle

CleanReturn ==
  /\ cleanPc = "called"
  /\ cleaned' = cleanText(rawText)
  /\ cleanPc' = "returned"
  /\ UNCHANGED <<rawText, retrVars, cosVars, chunkVars, ingVars, fmtVars, chatVars,
                 attrVars>>

CleanNext == CleanReturn

SpecClean == CleanInit /\ [][CleanNext]_vars

\* the characters of str that are not white space, in order
RECURSIVE NonSpace(_)
NonSpace(str) ==
  IF str = "" THEN ""
  ELSE (IF IsSpace(SubSeq(str, 1, 1)) THEN "" ELSE SubSeq(str, 1, 1))
         \o NonSpace(SubSeq(str, 2, Len(str)))

\* the maximal runs of characters that are not white space, in order
RECURSIVE Words(_, _)
Words(str, word) ==
  IF str = "" THEN (IF word = "" THEN <<>> ELSE <<word>>)
  ELSE IF IsSpace(SubSeq(str, 1, 1))
       THEN (IF word = "" THEN <<>> ELSE <<word>>) \o Words(SubSeq(str, 2, Len(str)), "")
  ELSE Words(SubSeq(str, 2, Len(str)), word \o SubSeq(str, 1, 1))

RECURSIVE JoinWords(_)
JoinWords(ws) ==
  IF ws = <<>> THEN ""
  ELSE IF Len(ws) = 1 THEN ws[1]
  ELSE ws[1] \o " " \o JoinWords(Tail(ws))

\* C24: the text cleanText returns has no white space at its start or end
\* and no two adjacent white space characters; its white space characters are
\* spaces; it is the words of the input, in order, with one space between
\* two words; its other characters are those of the input in order; and
\* cleanText applied to it returns it again.
C24_CleanTextNormalForm ==
  cleanPc = "returned" =>
    /\ cleaned # "" =>
         /\ ~IsSpace(SubSeq(cleaned, 1, 1))
         /\ ~IsSpace(SubSeq(cleaned, Len(cleaned), Len(cleaned)))
    /\ \A i \in 1..Len(cleaned) - 1 :
         ~(IsSpace(SubSeq(cleaned, i, i)) /\ IsSpace(SubSeq(cleaned, i + 1, i + 1)))
    /\ \A i \in 1..Len(cleaned) :
         IsSpace(SubSeq(cleaned, i, i)) => SubSeq(cleaned, i, i) = " "
    /\ cleaned = JoinWords(Words(rawText, ""))
    /\ NonSpace(cleaned) = NonSpace(rawText)
    /\ cleanText(cleaned) = cleaned

\* a text with a run of a newline and a space between two letters has been
\* cleaned
C24_Witness ==
  /\ cleanPc = "returned"
  /\ rawText = "a\n b" /\ cleaned = "a b"

----------------------------------------------------------------------------
(* buildAttractionText(attraction): ingest.mjs, and the longer one of the
   combined ingestion and query script *)

\* A field that is missing and a field that is falsy take the same branch
\* in the code: "" stands for both, <<>> for a missing or empty array.
NoReview == [source |-> "", rating |-> "", reviewCount |-> "", summary |-> ""]

Attractions ==
  [name : {"", "Le Morne"},
   attraction_type : {"", "beach"},
   description : {"", "Sand."},
   tags : {<<>>, <<"sea", "hike">>},
   location : {[address |-> "", region |-> ""],
               [address |-> "", region |-> "West"],
               [address |-> "B9", region |-> "West"]},
   prerequisites : {[booking_required |-> FALSE], [booking_required |-> TRUE]},
   reviews : {<<>>,
              <<[source |-> "Web", rating |-> "4.5", reviewCount |-> "12", summary |-> ""]>>,
              <<[source |-> "Web", rating |-> "4.5", reviewCount |-> "", summary |-> "Calm"],
                NoReview>>},
   notes : {"", "Windy"},
   advisories : {[safety |-> "", travel |-> ""],
                 [safety |-> "Reef", travel |-> ""],
                 [safety |-> "Reef", travel |-> "Bus"]},
   audience_popularity : {[locals |-> "", tourists |-> ""],
                          [locals |-> "high", tourists |-> "high"]}]

BuildImpls == {"ingest.mjs", "combined"}

\* tags.join(", "), [addr, region].filter(Boolean).join(" | "), parts.join("\n")
RECURSIVE Join(_, _)
Join(list, sep) ==
  IF list = <<>> THEN ""
  ELSE IF Len(list) = 1 THEN list[1]
  ELSE list[1] \o sep \o Join(Tail(list), sep)

Truthy(str) == str # ""
KeepTruthy(list) == SelectSeq(list, Truthy)

If(cond, line) == IF cond THEN <<line>> ELSE <<>>

\* the lines both functions push for name .. location; the combined script
\* writes the name between asterisks (its pictographs are left out here)
HeadParts(impl, a) ==
  If(a.name # "", IF impl = "ingest.mjs" THEN "Name: " \o a.name
                  ELSE "**" \o a.name \o "**")
    \o If(a.attraction_type # "", "Type: " \o a.attraction_type)
    \o If(a.description # "", "Description: " \o a.description)
    \o If(Len(a.tags) > 0, "Tags: " \o Join(a.tags, ", "))
    \o If(a.location.address # "" \/ a.location.region # "",
          "Location: " \o Join(KeepTruthy(<<a.location.address, a.location.region>>), " | "))

\* ${r0?.source || ""} ${r0?.rating || ""} (${r0?.reviewCount ?? "n/a"} reviews)
ReviewHead(r0) ==
  "Reviews: " \o r0.source \o " " \o r0.rating \o " ("
    \o (IF r0.reviewCount = "" THEN "n/a" ELSE r0.reviewCount) \o " reviews)"

\* ingest.mjs:70-89
buildAttractionTextShort(a) ==
  Join(HeadParts("ingest.mjs", a)
         \o If(Len(a.reviews) > 0,
               Trim(ReviewHead(a.reviews[1]) \o "."
                      \o (IF a.reviews[1].summary # "" THEN " " \o a.reviews[1].summary
                          ELSE "")))
         \o If(a.notes # "", "Notes: " \o a.notes),
       "\n")

\* the combined script, lines 49-105
buildAttractionTextLong(a) ==
  Join(HeadParts("combined", a)
         \o If(a.prerequisites.booking_required, "Booking Required: Yes")
         \o If(Len(a.reviews) > 0,
               ReviewHead(a.reviews[1])
                 \o (IF a.reviews[1].summary # ""
                     THEN "\n  Summary: " \o a.reviews[1].summary ELSE ""))
         \o If(a.notes # "", "Notes: " \o a.notes)
         \o If(a.advisories.safety # "", "Safety: " \o a.advisories.safety)
         \o If(a.advisories.travel # "", "Travel: " \o a.advisories.travel)
         \o If(a.audience_popularity.locals # "" \/ a.audience_popularity.tourists # "",
               "Popularity: "
                 \o Join(If(a.audience_popularity.locals # "",
                            "Locals: " \o a.audience_popularity.locals)
                           \o If(a.audience_popularity.tourists # "",
                                 "Tourists: " \o a.audience_popularity.tourists),
                         ", ")),
       "\n")

buildAttractionText(impl, a) ==
  IF impl = "ingest.mjs" THEN buildAttractionTextShort(a) ELSE buildAttractionTextLong(a)

AttrInit ==
  /\ attraction \in [impl : BuildImpls, record : Attractions]
  /\ attractionText = "" /\ attrPc = "called"
  /\ RetrIdle /\ CosIdle /\ ChunkIdle /\ IngIdle /\ FmtIdle /\ ChatIdle /\ CleanIdle

AttrReturn ==
  /\ attrPc = "called"
  /\ attractionText' = buildAttractionText(attraction.impl, attraction.record)
  /\ attrPc' = "returned"
  /\ UNCHANGED <<attraction, retrVars, cosVars, chunkVars, ingVars, fmtVars, chatVars,
                 cleanVars>>

AttrNext == AttrReturn

SpecAttr == AttrInit /\ [][AttrNext]_vars

\* the fields of the record that are present, in the order of the claim
PresentFields(a) ==
  If(a.name # "", "name") \o If(a.attraction_type # "", "type")
    \o If(a.description # "", "description") \o If(Len(a.tags) > 0, "tags")
    \o If(a.location.address # "" \/ a.location.region # "", "location")
    \o If(Len(a.reviews) > 0, "review") \o If(a.notes # "", "notes")
    \o If(a.advisories.safety # "" \/ a.advisories.travel # "", "advisories")
    \o If(a.audience_popularity.locals # "" \/ a.audience_popularity.tourists # "",
          "popularity")

\* the field a line of the text is about
LineField(line) ==
  CASE StartsWith(line, "Name: ") \/ StartsWith(line, "**") -> "name"
    [] StartsWith(line, "Type: ") -> "type"
    [] StartsWith(line, "Description: ") -> "description"
    [] StartsWith(line, "Tags: ") -> "tags"
    [] StartsWith(line, "Location: ") -> "location"
    [] StartsWith(line, "Reviews: ") -> "review"
    [] StartsWith(line, "Notes: ") -> "notes"
    [] StartsWith(line, "Safety: ") \/ StartsWith(line, "Travel: ") -> "advisories"
    [] StartsWith(line, "Popularity: ") -> "popularity"
    [] OTHER -> "other"

\* the lines about the fields the claim names
IsNamedField(line) == LineField(line) # "other"
IsNotBooking(line) == ~StartsWith(line, "Booking Required: ")

\* C25: the returned text has one line for each present field of the record
\* and no other line (lines about prerequisites set aside), in the order
\* name, type, description, tags, location, first review, notes, advisories,
\* popularity.
C25_OneLinePerPresentField ==
  attrPc = "returned" =>
    LET lines == IF attractionText = "" THEN <<>>
                 ELSE SelectSeq(Split(attractionText, "\n"), IsNotBooking)
        expected == PresentFields(attraction.record)
    IN  /\ Len(lines) = Len(expected)
        /\ \A k \in 1..Len(lines) : LineField(lines[k]) = expected[k]

====
